---- MODULE Spec2Model ----
(***************************************************************************)
(* Model of the brand discovery pipeline of brand-ad-intelligence:         *)
(*   - checkDomainForBrand, the domain verification cascade                *)
(*     (src/lib/brand-discovery.ts),                                       *)
(*   - discoverBrand, the orchestrator under its run deadline,             *)
(*   - the redirect resolvers,                                             *)
(*   - extractLandingPageUrl, the landing URL extractor,                   *)
(*   - generateKeywords, the keyword generator,                            *)
(*   - the worker with its job queue and the result cache.                 *)
(* Strings are sequences of one-character strings, so that toLowerCase,    *)
(* includes, prefix stripping and splitting are computed, not assumed.     *)
(* Confidences are in hundredths (0.70 is 70).                             *)
(***************************************************************************)
EXTENDS Integers, Sequences, FiniteSets, TLC

VARIABLES
    cin,        \* checkDomainForBrand: its arguments and the network's answers
    cst,        \* checkDomainForBrand: position, result, steps evaluated, calls made
    opt,        \* discoverBrand: the brand name and the options of the run
    run,        \* discoverBrand: its position, its clock and its local variables
    report,     \* discoverBrand: the report returned, once returned
    net,        \* discoverBrand: the network calls issued so far, in order
    rr,         \* the redirect resolvers: the resolver running, its chain and hops
    ex,         \* extractLandingPageUrl: the snapshot page, its position and result
    kg,         \* generateKeywords: the ads, the brand, the limit and the result
    wk          \* the worker: its jobs, its queue, the cache and the requests in flight

checkVars == <<cin, cst>>
pipeVars  == <<opt, run, report, net>>
vars      == <<cin, cst, opt, run, report, net, rr, ex, kg, wk>>

-----------------------------------------------------------------------------
(* Strings                                                                 *)

UpperAlpha == <<"A","B","C","D","E","F","G","H","I","J","K","L","M",
                "N","O","P","Q","R","S","T","U","V","W","X","Y","Z">>
LowerAlpha == <<"a","b","c","d","e","f","g","h","i","j","k","l","m",
                "n","o","p","q","r","s","t","u","v","w","x","y","z">>

\* the lower-case letter of each upper-case letter
LowerTable ==
    [c \in {UpperAlpha[i] : i \in 1..26} |->
        LowerAlpha[CHOOSE i \in 1..26 : UpperAlpha[i] = c]]

LowerChar(c) == IF c \in DOMAIN LowerTable THEN LowerTable[c] ELSE c

\* String.prototype.toLowerCase
ToLowerCase(s) == [i \in 1..Len(s) |-> LowerChar(s[i])]

\* String.prototype.includes
Includes(s, t) ==
    \E i \in 0..(Len(s) - Len(t)) : SubSeq(s, i + 1, i + Len(t)) = t

StartsWith(s, t) == Len(s) >= Len(t) /\ SubSeq(s, 1, Len(t)) = t

EndsWith(s, t) == Len(s) >= Len(t) /\ SubSeq(s, Len(s) - Len(t) + 1, Len(s)) = t

\* s.replace(/^t/, '')
StripPrefix(s, t) == IF StartsWith(s, t) THEN SubSeq(s, Len(t) + 1, Len(s)) ELSE s

RECURSIVE RemoveChars(_, _)
\* s.replace(/[chars]+/g, '')
RemoveChars(s, chars) ==
    IF s = <<>> THEN <<>>
    ELSE IF Head(s) \in chars THEN RemoveChars(Tail(s), chars)
         ELSE <<Head(s)>> \o RemoveChars(Tail(s), chars)

RECURSIVE TrimLeft(_)
TrimLeft(s) == IF s # <<>> /\ Head(s) = " " THEN TrimLeft(Tail(s)) ELSE s

RECURSIVE TrimRight(_)
TrimRight(s) ==
    IF s # <<>> /\ s[Len(s)] = " " THEN TrimRight(SubSeq(s, 1, Len(s) - 1)) ELSE s

\* String.prototype.trim
Trim(s) == TrimRight(TrimLeft(s))

\* s.split('/')[0]
BeforeSlash(s) ==
    IF \E i \in 1..Len(s) : s[i] = "/"
    THEN SubSeq(s, 1, (CHOOSE i \in 1..Len(s) :
                          s[i] = "/" /\ \A j \in 1..(i - 1) : s[j] # "/") - 1)
    ELSE s

\* the rest of s from its first '/', or the empty string
FromSlash(s) == SubSeq(s, Len(BeforeSlash(s)) + 1, Len(s))

RECURSIVE StripTrailingSlashes(_)
\* s.replace(/\/+$/, '')
StripTrailingSlashes(s) ==
    IF s # <<>> /\ s[Len(s)] = "/"
    THEN StripTrailingSlashes(SubSeq(s, 1, Len(s) - 1)) ELSE s

\* null, undefined and '' are all falsy; the absent string is the empty one
Null == <<>>

S_https == <<"h","t","t","p","s",":","/","/">>
S_http  == <<"h","t","t","p",":","/","/">>
S_www   == <<"w","w","w",".">>
S_slash == <<"/">>
S_cdn_shopify == <<"c","d","n",".","s","h","o","p","i","f","y",".","c","o","m">>
S_myshopify   == <<".","m","y","s","h","o","p","i","f","y",".","c","o","m">>

\* a parsed absolute URL: new URL(u).hostname and .pathname
Url(host, path) == [host |-> host, path |-> path]
NoUrl == Url(Null, Null)
HomeUrl(domain) == Url(domain, S_slash)

-----------------------------------------------------------------------------
(* Caption and URL helpers                                                 *)

Min(a, b) == IF a < b THEN a ELSE b

\* Array.prototype.slice(0, n)
Take(s, n) == SubSeq(s, 1, Min(n, Len(s)))

\* Array.prototype.includes / Set.has over a sequence
Has(s, x) == \E i \in 1..Len(s) : s[i] = x

\* push x unless already present
AddUnique(s, x) == IF Has(s, x) THEN s ELSE Append(s, x)

\* url-extractor.ts: the domain shown in an ad caption, or null
extractDomainFromCaption(caption) ==
    IF caption = Null THEN Null
    ELSE LET lowered == ToLowerCase(Trim(caption))
             noProto == StripPrefix(StripPrefix(lowered, S_https), S_http)
             domain  == BeforeSlash(StripPrefix(noProto, S_www))
         IN  IF domain # <<>> /\ Has(domain, ".") /\ ~Has(domain, " ")
             THEN domain ELSE Null

\* url-extractor.ts: the caption as a URL that keeps its path, or null
extractFullUrlFromCaption(caption) ==
    IF caption = Null THEN NoUrl
    ELSE LET lowered == ToLowerCase(Trim(caption))
             noProto == StripPrefix(StripPrefix(lowered, S_https), S_http)
             cleaned == StripTrailingSlashes(StripPrefix(noProto, S_www))
             domainPart == BeforeSlash(cleaned)
         IN  IF domainPart = <<>> \/ ~Has(domainPart, ".") \/ Has(domainPart, " ")
             THEN NoUrl
             ELSE Url(domainPart,
                      IF FromSlash(cleaned) = <<>> THEN S_slash ELSE FromSlash(cleaned))

\* brand-discovery.ts: hostname of a URL without www., lower-cased; null when unparsable
extractDomainFromUrl(url) ==
    IF url.host = Null THEN Null ELSE ToLowerCase(StripPrefix(url.host, S_www))

\* the characters of /[\s\-_.]+/
Separators == {" ", "-", "_", "."}

\* isDomainMatch without its alias test: only the brand domain itself matches
isDomainMatch_ExactOnly(domain, brandInfo) ==
    /\ brandInfo.brand_domain # Null
    /\ StripPrefix(ToLowerCase(domain), S_www) = ToLowerCase(brandInfo.brand_domain)

\* brand-discovery.ts: does a domain belong to the brand (exact, myshopify or alias)
isDomainMatch(domain, brandInfo) ==
    LET domainLower == StripPrefix(ToLowerCase(domain), S_www)
    IN  \/ brandInfo.brand_domain # Null
           /\ domainLower = ToLowerCase(brandInfo.brand_domain)
        \/ brandInfo.shopify_store # Null
           /\ domainLower = brandInfo.shopify_store \o S_myshopify
        \/ \E i \in 1..Len(brandInfo.brand_aliases) :
              LET normalized == RemoveChars(brandInfo.brand_aliases[i], Separators)
              IN  Len(normalized) >= 3 /\ Includes(domainLower, normalized)

NoVendor == [found |-> FALSE, matched_vendor |-> Null, confidence |-> 0]

RECURSIVE VendorLoop(_, _)
\* shopify-detector.ts: the for loop of shopifyStoreHasVendor
VendorLoop(vendors, brandLower) ==
    IF vendors = <<>> THEN NoVendor
    ELSE LET vendor == Head(vendors)
             vendorLower == ToLowerCase(Trim(vendor))
         IN  IF vendorLower = brandLower
             THEN [found |-> TRUE, matched_vendor |-> vendor, confidence |-> 95]
             ELSE IF Includes(vendorLower, brandLower) \/ Includes(brandLower, vendorLower)
             THEN [found |-> TRUE, matched_vendor |-> vendor, confidence |-> 80]
             ELSE IF RemoveChars(vendorLower, Separators) = RemoveChars(brandLower, Separators)
             THEN [found |-> TRUE, matched_vendor |-> vendor, confidence |-> 85]
             ELSE VendorLoop(Tail(vendors), brandLower)

\* shopify-detector.ts: products is the answer of /products.json ([ok, vendors])
shopifyStoreHasVendor(products, brandName) ==
    IF ~products.ok THEN NoVendor
    ELSE VendorLoop(products.vendors, ToLowerCase(Trim(brandName)))

RECURSIVE InsertByCount(_, _)
InsertByCount(sorted, e) ==
    IF sorted = <<>> THEN <<e>>
    ELSE IF Head(sorted).count >= e.count
         THEN <<Head(sorted)>> \o InsertByCount(Tail(sorted), e)
         ELSE <<e>> \o sorted

RECURSIVE SortByCountDesc(_)
\* Array.prototype.sort((a, b) => b[1] - a[1]), which is stable
SortByCountDesc(s) ==
    IF s = <<>> THEN <<>>
    ELSE InsertByCount(SortByCountDesc(SubSeq(s, 1, Len(s) - 1)), s[Len(s)])

\* the entries of a domain's full-URL map with a non-root path, most seen first
SpecificUrls(fullUrls) ==
    SortByCountDesc(SelectSeq(fullUrls, LAMBDA e : e.url.host # Null /\ e.url.path # S_slash))

-----------------------------------------------------------------------------
(* checkDomainForBrand (Step 6): the verification cascade                  *)
(*                                                                         *)
(* cin = [domain, brandInfo, opts, site]: the arguments, and in site what  *)
(* the network answers for this domain.  cst = [pc, result, log, net]:     *)
(* log lists the cascade steps evaluated, net the network calls made.      *)

EmptyResult(domain) ==
    [domain |-> domain, is_match |-> FALSE, match_type |-> "none", confidence |-> 0,
     final_url |-> NoUrl, redirect_chain |-> <<>>, shop_domain |-> Null,
     vendor_name |-> Null, page_ids |-> <<>>, ad_count |-> 0]

CheckStart(domain) ==
    [pc |-> "6a", result |-> EmptyResult(domain), log |-> <<>>, net |-> <<>>]

\* a match that is returned with its match_type and confidence left as they were
Matched_KeepsType(st, type, conf, shop, vendor) ==
    [st EXCEPT !.pc = "done",
               !.result = [@ EXCEPT !.is_match = TRUE, !.shop_domain = shop,
                                    !.vendor_name = vendor]]

\* result.is_match = true; ...; return result
Matched(st, type, conf, shop, vendor) ==
    [st EXCEPT !.pc = "done",
               !.result = [@ EXCEPT !.is_match = TRUE, !.match_type = type,
                                    !.confidence = conf, !.shop_domain = shop,
                                    !.vendor_name = vendor]]

Goto(st, pc) == [st EXCEPT !.pc = pc]
Logged(st, step) == [st EXCEPT !.log = Append(@, step)]
Called(st, call) == [st EXCEPT !.net = Append(@, call)]
WithChain(st, chain) == [st EXCEPT !.result.redirect_chain = chain]

BrandDomainOf(in) == ToLowerCase(in.brandInfo.brand_domain)

\* the first alias of at least 4 characters that text contains, or null
FirstAliasIn(aliases, text) ==
    IF \E i \in 1..Len(aliases) : Len(aliases[i]) >= 4 /\ Includes(text, aliases[i])
    THEN aliases[CHOOSE i \in 1..Len(aliases) :
                    /\ Len(aliases[i]) >= 4 /\ Includes(text, aliases[i])
                    /\ \A j \in 1..(i - 1) :
                          ~(Len(aliases[j]) >= 4 /\ Includes(text, aliases[j]))]
    ELSE Null

\* Do6a with the return of the direct match dropped: the cascade goes on to 6b
Do6a_NoReturn(in, st) ==
    IF in.brandInfo.brand_domain = Null THEN Goto(st, "done")
    ELSE IF ToLowerCase(in.domain) = BrandDomainOf(in)
         THEN Goto(Matched(Logged(st, "direct"), "direct", 100, in.domain, Null), "6b")
         ELSE Goto(Logged(st, "direct"), "6b")

\* 6a: the early return without a brand domain, then the direct comparison
Do6a(in, st) ==
    IF in.brandInfo.brand_domain = Null THEN Goto(st, "done")
    ELSE IF ToLowerCase(in.domain) = BrandDomainOf(in)
         THEN Matched(Logged(st, "direct"), "direct", 100, in.domain, Null)
         ELSE Goto(Logged(st, "direct"), "6b")

\* fetchWithRedirects: [start] plus response.url when it differs
FetchChain(domain, finalUrl) ==
    IF finalUrl # HomeUrl(domain) THEN <<HomeUrl(domain), finalUrl>> ELSE <<HomeUrl(domain)>>

\* 6b: fetch the homepage following redirects; a failed fetch skips 6c and 6d
Do6b(in, st) ==
    LET s1 == Called(Logged(st, "redirect"), "fetch_home")
    IN  IF ~in.site.homeOk THEN Goto(s1, "6f")
        ELSE LET finalUrl == Url(in.site.finalHost, S_slash)
                 s2 == [s1 EXCEPT !.result.final_url = finalUrl,
                                  !.result.redirect_chain = FetchChain(in.domain, finalUrl)]
                 finalDomain == extractDomainFromUrl(finalUrl)
             IN  IF finalDomain # Null /\ isDomainMatch(finalDomain, in.brandInfo)
                 THEN Matched(s2, "redirect", 90, finalDomain, Null)
                 ELSE Goto(s2, "6c")

\* 6c: the vendor check, only on a Shopify page and with a known brand vendor
Do6c(in, st) ==
    IF in.site.html = <<>> THEN Goto(st, "6d")
    ELSE LET s1 == Logged(st, "vendor")
             isShopify == Includes(ToLowerCase(in.site.html), S_cdn_shopify)
         IN  IF isShopify /\ in.brandInfo.vendor_name # Null
             THEN LET vendorCheck ==
                          shopifyStoreHasVendor(in.site.products, in.brandInfo.vendor_name)
                      s2 == Called(s1, "products_json")
                  IN  IF vendorCheck.found
                      THEN Matched(s2, "shopify_vendor", vendorCheck.confidence,
                                   in.domain, vendorCheck.matched_vendor)
                      ELSE Goto(s2, "content")
             ELSE Goto(s1, "content")

\* the content link and content mention checks on the homepage HTML
DoContent(in, st) ==
    LET s1 == Logged(st, "content")
        alias == FirstAliasIn(in.brandInfo.brand_aliases, ToLowerCase(in.site.html))
    IN  IF Includes(in.site.html, BrandDomainOf(in))
        THEN Matched(s1, "content_link", 75, BrandDomainOf(in), Null)
        ELSE IF alias # Null
        THEN Matched(s1, "content_match", 60, in.brandInfo.brand_domain, alias)
        ELSE Goto(s1, "6d")

\* 6d: the homepage, then up to 3 landing URLs with a path, most seen first
PresellUrlsToCheck(in) ==
    LET top == Take(SpecificUrls(in.opts.domainFullUrls), 3)
        F[i \in 0..Len(top)] ==
            IF i = 0 THEN <<HomeUrl(in.domain)>> ELSE AddUnique(F[i - 1], top[i].url)
    IN  F[Len(top)]

\* what trackPresellChain answers for a URL: the final URL its CTA leads to, or null
PresellFinalUrl(in, url) ==
    IF url = HomeUrl(in.domain) THEN in.site.presellHome ELSE in.site.presellLanding

RECURSIVE PresellLoop(_, _, _)
PresellLoop(in, st, urls) ==
    IF urls = <<>> THEN Goto(st, "6f")
    ELSE LET s1 == Called(st, "presell_chain")
             final == PresellFinalUrl(in, Head(urls))
             ctaFinalDomain == extractDomainFromUrl(final)
             vendorCheck == shopifyStoreHasVendor(in.site.ctaProducts, in.brandInfo.vendor_name)
         IN  IF final = NoUrl THEN PresellLoop(in, s1, Tail(urls))
             ELSE IF ctaFinalDomain # Null /\ isDomainMatch(ctaFinalDomain, in.brandInfo)
             THEN Matched(WithChain(s1, <<Head(urls), final>>),
                          "presell_cta", 85, ctaFinalDomain, Null)
             ELSE IF ctaFinalDomain # Null /\ in.brandInfo.vendor_name # Null
             THEN IF vendorCheck.found
                  THEN Matched(WithChain(Called(s1, "products_json"), <<Head(urls), final>>),
                               "checkout_match",
                               vendorCheck.confidence, ctaFinalDomain,
                               vendorCheck.matched_vendor)
                  ELSE PresellLoop(in, Called(s1, "products_json"), Tail(urls))
             ELSE PresellLoop(in, s1, Tail(urls))

Do6d(in, st) == PresellLoop(in, Logged(st, "presell"), PresellUrlsToCheck(in))

RECURSIVE LandingUrlLoop(_, _, _)
\* 6f checks 1 and 2 on the URLs already harvested, in the map's insertion order
LandingUrlLoop(in, st, entries) ==
    IF entries = <<>> THEN st
    ELSE LET fullUrl == Head(entries).url
             urlDomain == extractDomainFromUrl(fullUrl)
             alias == FirstAliasIn(in.brandInfo.brand_aliases, ToLowerCase(fullUrl.path))
         IN  IF urlDomain # Null /\ isDomainMatch(urlDomain, in.brandInfo)
             THEN Matched(st, "redirect", 85, urlDomain, Null)
             ELSE IF fullUrl.host # Null /\ alias # Null
             THEN Matched(st, "content_link", 80, in.brandInfo.brand_domain, Null)
             ELSE LandingUrlLoop(in, st, Tail(entries))

RECURSIVE LandingFetchLoop(_, _, _)
\* 6f check 3: fetch up to 2 landing pages and repeat the content checks
LandingFetchLoop(in, st, entries) ==
    IF entries = <<>> THEN Goto(st, "dual")
    ELSE LET s1 == Called(st, "fetch_landing")
             htmlLower == ToLowerCase(in.site.landingHtml)
             alias == FirstAliasIn(in.brandInfo.brand_aliases, htmlLower)
         IN  IF ~in.site.landingOk THEN LandingFetchLoop(in, s1, Tail(entries))
             ELSE IF Includes(htmlLower, BrandDomainOf(in))
             THEN Matched(s1, "content_link", 75, BrandDomainOf(in), Null)
             ELSE IF alias # Null
             THEN Matched(s1, "content_match", 65, in.brandInfo.brand_domain, alias)
             ELSE LandingFetchLoop(in, s1, Tail(entries))

\* 6f: the ad landing URL check
Do6f(in, st) ==
    IF in.opts.domainFullUrls = <<>> THEN Goto(st, "dual")
    ELSE LET s1 == LandingUrlLoop(in, Logged(st, "landing"), in.opts.domainFullUrls)
         IN  IF s1.pc = "done" THEN s1
             ELSE LandingFetchLoop(in, s1, Take(SpecificUrls(in.opts.domainFullUrls), 2))

\* the caption domains of a list of ads, in order
CaptionDomains(ads) ==
    LET F[i \in 0..Len(ads)] ==
            IF i = 0 THEN <<>>
            ELSE F[i - 1] \o [k \in 1..Len(ads[i].captions) |->
                                 extractDomainFromCaption(ads[i].captions[k])]
    IN  F[Len(ads)]

\* the dual-domain check: an ad of this domain that also names a brand domain
DoDual(in, st) ==
    IF in.opts.domainAds = <<>> THEN Goto(st, "6g")
    ELSE LET s1 == Logged(st, "dual")
             cds == CaptionDomains(in.opts.domainAds)
             Hit(i) == /\ cds[i] # Null
                       /\ cds[i] # ToLowerCase(in.domain)
                       /\ isDomainMatch(cds[i], in.brandInfo)
         IN  IF \E i \in 1..Len(cds) : Hit(i)
             THEN Matched(s1, "content_link", 80,
                          cds[CHOOSE i \in 1..Len(cds) :
                                 Hit(i) /\ \A j \in 1..(i - 1) : ~Hit(j)], Null)
             ELSE Goto(s1, "6g")

S_shop == <<"s","h","o","p">>
S_buy  == <<"b","u","y">>
S_go   == <<"/","g","o","/">>
\* three of the code's twelve ctaPatterns
CtaPatterns == {S_shop, S_buy, S_go}

IsCtaLink(url) ==
    url.host # Null /\ \E p \in CtaPatterns : Includes(ToLowerCase(url.host \o url.path), p)

RECURSIVE CtaRedirectLoop(_, _, _)
\* 6g check 4: resolve up to 3 CTA-like links of the rendered page
CtaRedirectLoop(in, st, links) ==
    IF links = <<>> THEN Goto(st, "done")
    ELSE LET s1 == Called(st, "fetch_cta")
             ctaFinalDomain == in.site.ctaDest
         IN  IF ctaFinalDomain # Null /\ isDomainMatch(ctaFinalDomain, in.brandInfo)
             THEN Matched(WithChain(s1, <<Head(links), Url(ctaFinalDomain, S_slash)>>),
                          "presell_cta", 85, ctaFinalDomain, Null)
             ELSE CtaRedirectLoop(in, s1, Tail(links))

\* 6g: render the page with JavaScript, when a rendering key is in the options
Do6g(in, st) ==
    IF ~in.opts.scrapingbee_key THEN Goto(st, "done")
    ELSE LET s1 == Called(Logged(st, "render"), "render")
             hrefs == in.site.renderHrefs
             LinkHit(i) == /\ extractDomainFromUrl(hrefs[i]) # Null
                           /\ isDomainMatch(extractDomainFromUrl(hrefs[i]), in.brandInfo)
             htmlLower == ToLowerCase(in.site.renderText)
             alias == FirstAliasIn(in.brandInfo.brand_aliases, htmlLower)
         IN  IF ~in.site.renderOk THEN Goto(s1, "done")
             ELSE IF \E i \in 1..Len(hrefs) : LinkHit(i)
             THEN Matched(s1, "presell_cta", 85,
                          extractDomainFromUrl(hrefs[CHOOSE i \in 1..Len(hrefs) :
                              LinkHit(i) /\ \A j \in 1..(i - 1) : ~LinkHit(j)]), Null)
             ELSE IF Includes(htmlLower, BrandDomainOf(in))
             THEN Matched(s1, "content_link", 80, BrandDomainOf(in), Null)
             ELSE IF alias # Null
             THEN Matched(s1, "content_match", 70, in.brandInfo.brand_domain, alias)
             ELSE CtaRedirectLoop(in, s1, Take(SelectSeq(hrefs, IsCtaLink), 3))

\* a call that answers from what an earlier call left behind instead of running
CheckStep_Remembered(in, st) == Goto(st, "done")

\* one step of the cascade
CheckStep(in, st) ==
    CASE st.pc = "6a"      -> Do6a(in, st)
      [] st.pc = "6b"      -> Do6b(in, st)
      [] st.pc = "6c"      -> Do6c(in, st)
      [] st.pc = "content" -> DoContent(in, st)
      [] st.pc = "6d"      -> Do6d(in, st)
      [] st.pc = "6f"      -> Do6f(in, st)
      [] st.pc = "dual"    -> DoDual(in, st)
      [] st.pc = "6g"      -> Do6g(in, st)
      [] OTHER             -> st

RECURSIVE CheckRun(_, _)
CheckRun(in, st) == IF st.pc = "done" THEN st ELSE CheckRun(in, CheckStep(in, st))

\* the whole call: the result of the cascade run to its end
checkDomainForBrand(domain, brandInfo, opts, site) ==
    CheckRun([domain |-> domain, brandInfo |-> brandInfo, opts |-> opts, site |-> site],
             CheckStart(domain))

-----------------------------------------------------------------------------
(* The data the model runs on                                              *)

S_Glow         == <<"G","l","o","w">>
S_glow         == <<"g","l","o","w">>
S_glow_de      == <<"g","l","o","w",".","d","e">>
S_Glow_de      == <<"G","l","o","w",".","d","e">>
S_shop_glow_de == <<"s","h","o","p",".","g","l","o","w",".","d","e">>
S_a_io         == <<"a",".","i","o">>
S_x_io         == <<"x",".","i","o">>
S_Glow_GmbH    == <<"G","l","o","w"," ","G","m","b","H">>
S_Other        == <<"O","t","h","e","r">>
S_GLOW         == <<"G","L","O","W">>
S_G_low        == <<"G","-","l","o","w">>
S_Glow_dot     == <<"G","l","o","w",".">>
S_path_x       == <<"/","x">>
S_path_glow    == <<"/","g","l","o","w","-","t","e","s","t">>
S_path_go      == <<"/","g","o","/","1">>

Html_plain   == <<"h","i">>
Html_shopify == S_cdn_shopify
Html_link    == <<"t","o"," ">> \o S_glow_de
Html_alias   == S_Glow \o <<"!">>

Ad(id, page, name, captions, snapshot) ==
    [id |-> id, page_id |-> page, page_name |-> name, captions |-> captions,
     ad_snapshot_url |-> snapshot]

BrandInfoOf(domain, aliases, store, vendor, official) ==
    [brand_name |-> S_Glow, brand_domain |-> domain, brand_aliases |-> aliases,
     shopify_store |-> store, vendor_name |-> vendor, official_page_ids |-> official]

\* a brand without a resolved domain, a plain brand, a brand with a Shopify vendor
CheckBrandInfos ==
    { BrandInfoOf(Null, <<S_glow>>, Null, Null, <<>>),
      BrandInfoOf(S_glow_de, <<S_glow>>, Null, Null, <<"p0">>),
      BrandInfoOf(S_glow_de, <<S_glow>>, Null, S_Glow, <<"p0">>) }

CheckDomains == {S_a_io, S_glow_de, S_Glow_de}

CheckFullUrls ==
    { <<>>,
      <<[url |-> Url(S_a_io, S_path_x), count |-> 2]>>,
      <<[url |-> Url(S_a_io, S_path_x), count |-> 1],
        [url |-> Url(S_a_io, S_path_glow), count |-> 1]>>,
      <<[url |-> Url(S_a_io, S_slash), count |-> 1],
        [url |-> Url(S_glow_de, S_path_x), count |-> 1]>> }

CheckAds ==
    { <<>>,
      <<Ad("a1", "p1", "One", <<S_a_io>>, TRUE)>>,
      <<Ad("a1", "p1", "One", <<S_a_io, S_Glow_de>>, TRUE)>> }

Products(ok, vendors) == [ok |-> ok, vendors |-> vendors]
ProductAnswers ==
    {Products(FALSE, <<>>), Products(TRUE, <<S_Other>>), Products(TRUE, <<S_Other, S_Glow_GmbH>>)}

\* the vendors a store can list: one equal to the brand name but for its case, one
\* equal once the separators are removed, two that contain it, one unrelated
VendorNames == {S_GLOW, S_G_low, S_Glow_GmbH, S_Glow_dot, S_Other}

\* what /products.json answers in 6c: as ProductAnswers, or one or two of VendorNames
\* in either order (fetchProductsJson lists each vendor once, most products first)
VendorAnswers ==
    ProductAnswers
        \cup {Products(TRUE, <<v>>) : v \in VendorNames}
        \cup {Products(TRUE, <<p[1], p[2]>>) :
                 p \in {q \in VendorNames \X VendorNames : q[1] # q[2]}}

\* what the network answers before any call has been made
DefaultSite ==
    [homeOk |-> FALSE, finalHost |-> Null, html |-> <<>>,
     products |-> Products(FALSE, <<>>),
     presellHome |-> NoUrl, presellLanding |-> NoUrl, ctaProducts |-> Products(FALSE, <<>>),
     landingOk |-> FALSE, landingHtml |-> <<>>,
     renderOk |-> FALSE, renderHrefs |-> <<>>, renderText |-> <<>>, ctaDest |-> Null]

HtmlAnswers == {<<>>, Html_plain, Html_shopify, Html_link, Html_alias}
\* the hosts the homepage of a candidate can redirect to
RedirectHosts == {S_shop_glow_de, S_www \o S_glow_de, S_glow_de, S_x_io}
PresellAnswers == {NoUrl, Url(S_shop_glow_de, S_path_x), Url(S_x_io, S_slash)}
RenderAnswers ==
    { [ok |-> FALSE, hrefs |-> <<>>, text |-> <<>>],
      [ok |-> TRUE, hrefs |-> <<Url(Null, Null), Url(S_glow_de, S_path_x)>>, text |-> Html_plain],
      [ok |-> TRUE, hrefs |-> <<>>, text |-> Html_link],
      [ok |-> TRUE, hrefs |-> <<>>, text |-> Html_alias],
      [ok |-> TRUE, hrefs |-> <<Url(S_x_io, S_path_go), Url(S_x_io, S_path_x)>>,
       text |-> Html_plain] }

\* no call of checkDomainForBrand is being followed step by step
CheckIdle ==
    /\ cin = [domain |-> Null, brandInfo |-> BrandInfoOf(Null, <<>>, Null, Null, <<>>),
              opts |-> [use_headless |-> FALSE, scrapingbee_key |-> FALSE, domainAds |-> <<>>,
                        domainFullUrls |-> <<>>],
              site |-> DefaultSite]
    /\ cst = [pc |-> "idle", result |-> EmptyResult(Null), log |-> <<>>, net |-> <<>>]

-----------------------------------------------------------------------------
(* discoverBrand: the pure parts of the pipeline                           *)
(* A Map is a sequence of records in insertion order, its key in .key.     *)

\* an optional number that was not given
Undefined == -1

\* v || d for numbers: undefined and 0 are both falsy
OrDefault(v, d) == IF v = Undefined \/ v = 0 THEN d ELSE v

NoPage == ""

KeyIndex(m, k) ==
    IF \E i \in 1..Len(m) : m[i].key = k
    THEN CHOOSE i \in 1..Len(m) : m[i].key = k
    ELSE 0

\* m.set(k, (m.get(k) || 0) + 1)
CountInto(m, k) ==
    IF KeyIndex(m, k) = 0 THEN Append(m, [key |-> k, count |-> 1])
    ELSE [m EXCEPT ![KeyIndex(m, k)].count = @ + 1]

\* the elements of s without repetition, in order of first occurrence: [...new Set(s)]
Dedup(s) ==
    LET F[i \in 0..Len(s)] == IF i = 0 THEN <<>> ELSE AddUnique(F[i - 1], s[i])
    IN  F[Len(s)]

\* every caption of every ad, in order, with the ad it stands on
CaptionsOf(ads) ==
    LET F[i \in 0..Len(ads)] ==
            IF i = 0 THEN <<>>
            ELSE F[i - 1] \o [k \in 1..Len(ads[i].captions) |->
                                 [ad |-> ads[i], caption |-> ads[i].captions[k]]]
    IN  F[Len(ads)]

\* s.split(sep)[0]
SplitFirst(s, sep) ==
    IF Includes(s, sep)
    THEN SubSeq(s, 1, (CHOOSE i \in 0..(Len(s) - Len(sep)) :
                          /\ SubSeq(s, i + 1, i + Len(sep)) = sep
                          /\ \A j \in 0..(i - 1) : SubSeq(s, j + 1, j + Len(sep)) # sep))
    ELSE s

\* the ASCII members of the subtitle separators /[-|]/
SubtitleChars == {"-", "|"}
NameSeparators == << <<" ","-"," ">>, <<" ","|"," ">> >>

\* s.replace(/\s*[-|].*$/, '').trim()
ShortName(s) ==
    IF \E i \in 1..Len(s) : s[i] \in SubtitleChars
    THEN Trim(SubSeq(s, 1, (CHOOSE i \in 1..Len(s) :
                               /\ s[i] \in SubtitleChars
                               /\ \A j \in 1..(i - 1) : s[j] \notin SubtitleChars) - 1))
    ELSE Trim(s)

\* the aliases findBrandDomain derives from the brand name alone
NameAliases(brandName) ==
    LET fullNameLower == Trim(ToLowerCase(brandName))
        F[i \in 0..Len(NameSeparators)] ==
            IF i = 0 THEN <<fullNameLower>>
            ELSE LET firstPart == Trim(SplitFirst(fullNameLower, NameSeparators[i]))
                     prev == F[i - 1]
                 IN  IF Includes(fullNameLower, NameSeparators[i]) /\ Len(firstPart) >= 3
                     THEN AddUnique(prev, firstPart) ELSE prev
        withParts == F[Len(NameSeparators)]
    IN  IF Len(ShortName(fullNameLower)) >= 3
        THEN AddUnique(withParts, ShortName(fullNameLower)) ELSE withParts

\* pageMap of findBrandDomain: page id -> name of its first ad, number of its ads
PageMap(ads) ==
    LET F[i \in 0..Len(ads)] ==
            IF i = 0 THEN <<>>
            ELSE LET prev == F[i - 1]
                     k == KeyIndex(prev, ads[i].page_id)
                 IN  IF ads[i].page_id # NoPage /\ ads[i].page_name # Null
                     THEN IF k = 0
                          THEN Append(prev, [key |-> ads[i].page_id,
                                             name |-> ads[i].page_name, count |-> 1])
                          ELSE [prev EXCEPT ![k].count = @ + 1]
                     ELSE prev
    IN  F[Len(ads)]

\* the pages whose name contains the brand name, or else the page with the most ads
OfficialPageIds(brandName, ads) ==
    LET brandLower == ToLowerCase(brandName)
        pageMap == PageMap(ads)
        IsBrandPage(e) ==
            \/ Includes(ToLowerCase(e.name), brandLower)
            \/ Includes(brandLower, RemoveChars(ToLowerCase(e.name), {" "}))
        named == SelectSeq(pageMap, IsBrandPage)
    IN  IF named # <<>> THEN [i \in 1..Len(named) |-> named[i].key]
        ELSE IF pageMap # <<>> THEN <<SortByCountDesc(pageMap)[1].key>>
        ELSE <<>>

\* the caption domains of the ads with the number of captions naming each
CaptionDomainCounts(ads) ==
    LET caps == CaptionsOf(ads)
        F[i \in 0..Len(caps)] ==
            IF i = 0 THEN <<>>
            ELSE LET prev == F[i - 1]
                     domain == extractDomainFromCaption(caps[i].caption)
                 IN  IF domain # Null THEN CountInto(prev, domain) ELSE prev
    IN  F[Len(caps)]

\* s.replace(/\.[^.]+$/, '')
StripTld(s) ==
    IF \E i \in 1..(Len(s) - 1) : s[i] = "." /\ \A j \in (i + 1)..Len(s) : s[j] # "."
    THEN SubSeq(s, 1, (CHOOSE i \in 1..(Len(s) - 1) :
                          s[i] = "." /\ \A j \in (i + 1)..Len(s) : s[j] # ".") - 1)
    ELSE s

\* s.replace('.myshopify.com', '')
WithoutMyshopify(s) ==
    IF Includes(s, S_myshopify)
    THEN LET pre == SplitFirst(s, S_myshopify)
         IN  pre \o SubSeq(s, Len(pre) + Len(S_myshopify) + 1, Len(s))
    ELSE s

\* the key inserted first, whatever its count
TopKey_First(m) == IF m # <<>> THEN m[1].key ELSE Null

\* the key counted most often: [...m.entries()].sort((a, b) => b[1] - a[1])[0][0]
TopKey(m) == IF m # <<>> THEN SortByCountDesc(m)[1].key ELSE Null

\* aliases.push(v.toLowerCase()) for each of the three names a Shopify store gave
ShopifyAliases(shopify) ==
    (IF shopify.myshopify_domain # Null
     THEN <<ToLowerCase(WithoutMyshopify(shopify.myshopify_domain))>> ELSE <<>>)
    \o (IF shopify.vendor_name # Null THEN <<ToLowerCase(shopify.vendor_name)>> ELSE <<>>)
    \o (IF shopify.og_site_name # Null THEN <<ToLowerCase(shopify.og_site_name)>> ELSE <<>>)

\* findBrandDomain once the brand domain is known: the domain alias, the Shopify
\* detection and the official pages
BrandInfoFound(brandName, brandAds, shopify, aliases, brand_domain, domainWithoutTld) ==
    LET isShop == brand_domain # Null /\ shopify.ok /\ shopify.is_shopify
    IN  [brand_name |-> brandName, brand_domain |-> brand_domain,
         brand_aliases |->
             Dedup((IF brand_domain # Null /\ Len(domainWithoutTld) >= 3
                    THEN AddUnique(aliases, domainWithoutTld) ELSE aliases)
                   \o (IF isShop THEN ShopifyAliases(shopify) ELSE <<>>)),
         shopify_store |-> IF isShop THEN shopify.store_name ELSE Null,
         vendor_name |-> IF isShop THEN shopify.vendor_name ELSE Null,
         official_page_ids |-> OfficialPageIds(brandName, brandAds)]

\* the brand domain findBrandDomain settles on: the caption domain seen most often
TopCaptionDomain(brandAds) == TopKey(CaptionDomainCounts(brandAds))

\* findBrandDomain: shopify is what detectShopifyStore answers for the domain found
findBrandDomain(brandName, brandAds, shopify) ==
    IF brandAds = <<>>
    THEN [brand_name |-> brandName, brand_domain |-> Null,
          brand_aliases |-> NameAliases(brandName),
          shopify_store |-> Null, vendor_name |-> Null, official_page_ids |-> <<>>]
    ELSE BrandInfoFound(brandName, brandAds, shopify, NameAliases(brandName),
                        TopCaptionDomain(brandAds),
                        ToLowerCase(StripTld(TopCaptionDomain(brandAds))))

S_facebook_com == <<"f","a","c","e","b","o","o","k",".","c","o","m">>
S_bit_ly       == <<"b","i","t",".","l","y">>
S_whatsapp_com == <<"w","h","a","t","s","a","p","p",".","c","o","m">>
S_fb_me        == <<"f","b",".","m","e">>
S_casino       == <<"c","a","s","i","n","o">>
S_porn         == <<"p","o","r","n">>
Digits         == {"0","1","2","3","4","5","6","7","8","9"}

\* some of the platform domains of detectBrandSearchThirdParty and of the excluded
\* domains of extractUniqueDomains (both lists hold facebook.com)
PLATFORM_DOMAINS == {S_facebook_com, S_whatsapp_com}
excludedDomains  == {S_facebook_com, S_bit_ly}

\* some of PLATFORM_DOMAINS of constants.ts, the list isPlatformDomain reads
SharedPlatformDomains == {S_facebook_com, S_whatsapp_com, S_fb_me}

\* d is one of the listed domains or a subdomain of one
IsListedDomain(d, list) == \E pd \in list : d = pd \/ EndsWith(d, <<".">> \o pd)

\* the host is a platform domain or a subdomain of one
isPlatformDomain(hostname) == IsListedDomain(ToLowerCase(hostname), SharedPlatformDomains)

\* two of SPAM_DOMAIN_PATTERNS: /porn/i and /casino/i
isSpamDomain(domain) ==
    Includes(ToLowerCase(domain), S_porn) \/ Includes(ToLowerCase(domain), S_casino)

\* one of SPAM_PAGE_NAME_PATTERNS: /\d{4}-\d+$/
isSpamPageName(name) ==
    \E i \in 1..(Len(name) - 5) :
        /\ \A j \in i..(i + 3) : name[j] \in Digits
        /\ name[i + 4] = "-"
        /\ \A j \in (i + 5)..Len(name) : name[j] \in Digits

\* a domain that holds a brand alias of at least 3 characters, separators removed
HoldsAlias(d, brandInfo) ==
    \E i \in 1..Len(brandInfo.brand_aliases) :
        LET normalized == RemoveChars(brandInfo.brand_aliases[i], Separators)
        IN  Len(normalized) >= 3 /\ Includes(d, normalized)

\* the lower-cased caption domains of a list of ads, without repetition
DomainSetOf(ads) ==
    LET cds == CaptionDomains(ads)
    IN  Dedup([i \in 1..Len(SelectSeq(cds, LAMBDA d : d # Null)) |->
                  ToLowerCase(SelectSeq(cds, LAMBDA d : d # Null)[i])])

\* the ads of one page
AdsOfPage(ads, pageId) == SelectSeq(ads, LAMBDA a : a.page_id = pageId)

\* the page ids of the ads, in order of first occurrence
PageIdsOf(ads) ==
    Dedup([i \in 1..Len(SelectSeq(ads, LAMBDA a : a.page_id # NoPage)) |->
              SelectSeq(ads, LAMBDA a : a.page_id # NoPage)[i].page_id])

\* the name under which pageAds files a page: the name of its first ad
PageNameIn(ads, pageId) == AdsOfPage(ads, pageId)[1].page_name

AddAllUnique(s, t) ==
    LET F[i \in 0..Len(t)] == IF i = 0 THEN s ELSE AddUnique(F[i - 1], t[i])
    IN  F[Len(t)]

\* Step 2b: the non-official pages of the brand search: those linking only to the
\* brand domain are confirmed third-party pages, the other domains become priority
detectBrandSearchThirdParty(brandAds, brandInfo) ==
    LET brandDomain == ToLowerCase(brandInfo.brand_domain)
        pages == SelectSeq(PageIdsOf(brandAds),
                           LAMBDA p : ~Has(brandInfo.official_page_ids, p))
        PageDomains(p) == DomainSetOf(AdsOfPage(brandAds, p))
        ThirdParty(p) ==
            SelectSeq(PageDomains(p),
                      LAMBDA d : /\ d # brandDomain
                                 /\ ~IsListedDomain(d, PLATFORM_DOMAINS)
                                 /\ ~HoldsAlias(d, brandInfo))
        Wanted(p) ==
            SelectSeq(ThirdParty(p),
                      LAMBDA d : ~isSpamDomain(d) /\ ~isSpamPageName(PageNameIn(brandAds, p)))
        F[i \in 0..Len(pages)] ==
            IF i = 0 THEN [confirmedThirdPartyPageIds |-> <<>>, priorityDomains |-> <<>>]
            ELSE LET prev == F[i - 1]
                 IN  IF ThirdParty(pages[i]) = <<>>
                     THEN IF Has(PageDomains(pages[i]), brandDomain)
                          THEN [prev EXCEPT !.confirmedThirdPartyPageIds = Append(@, pages[i])]
                          ELSE prev
                     ELSE [prev EXCEPT !.priorityDomains = AddAllUnique(@, Wanted(pages[i]))]
    IN  IF brandInfo.brand_domain = Null
        THEN [confirmedThirdPartyPageIds |-> <<>>, priorityDomains |-> <<>>]
        ELSE F[Len(pages)]

\* urlMap.set(url, (urlMap.get(url) || 0) + 1) in the full-URL map of one domain
AddFullUrl(fullUrls, domain, url) ==
    LET i == KeyIndex(fullUrls, domain)
        Bump(urls) ==
            IF \E k \in 1..Len(urls) : urls[k].url = url
            THEN [urls EXCEPT ![CHOOSE k \in 1..Len(urls) : urls[k].url = url].count = @ + 1]
            ELSE Append(urls, [url |-> url, count |-> 1])
    IN  IF i = 0 THEN Append(fullUrls, [key |-> domain, urls |-> <<[url |-> url, count |-> 1]>>])
        ELSE [fullUrls EXCEPT ![i].urls = Bump(@)]

\* map.get(k) of a Map of lists, undefined read as the empty list
UrlsOf(fullUrls, domain) ==
    IF KeyIndex(fullUrls, domain) = 0 THEN <<>> ELSE fullUrls[KeyIndex(fullUrls, domain)].urls

\* brandDomains of extractUniqueDomains before any caption is read
OwnDomains(brandInfo) ==
    IF brandInfo.brand_domain = Null THEN {}
    ELSE {ToLowerCase(brandInfo.brand_domain)} \cup
         (IF brandInfo.shopify_store # Null
          THEN {brandInfo.shopify_store \o S_myshopify} ELSE {})

\* ad.page_id || 'unknown'
PageOf(ad) == IF ad.page_id = NoPage THEN "unknown" ELSE ad.page_id

\* isBrandDomain of extractUniqueDomains: the domain holds an alias, blanks removed
IsBrandDomain(d, brandInfo) ==
    \E i \in 1..Len(brandInfo.brand_aliases) :
        Includes(d, RemoveChars(brandInfo.brand_aliases[i], {" "}))

\* domainMap: the pages and the number of captions of a candidate domain
Track(domains, d, pageId) ==
    IF KeyIndex(domains, d) = 0
    THEN Append(domains, [key |-> d, pages |-> <<pageId>>, count |-> 1])
    ELSE [domains EXCEPT ![KeyIndex(domains, d)] =
             [@ EXCEPT !.pages = AddUnique(@, pageId), !.count = @ + 1]]

\* the full URL of a caption is filed under its domain before any filter
WithFullUrl(acc, domain, fullUrl) ==
    IF domain # Null /\ fullUrl # NoUrl
    THEN [acc EXCEPT !.domainFullUrls = AddFullUrl(@, ToLowerCase(domain), fullUrl)]
    ELSE acc

\* the filters of extractUniqueDomains on the domain of one caption
FilterCaption(acc, domain, domainLower, pageId, brandInfo) ==
    IF domain = Null THEN acc
    ELSE IF domainLower \in acc.brandDomains THEN acc
    ELSE IF IsListedDomain(domainLower, excludedDomains) THEN acc
    ELSE IF IsBrandDomain(domainLower, brandInfo)
    THEN [acc EXCEPT !.brandDomains = @ \cup {domainLower}]
    ELSE [acc EXCEPT !.domains = Track(@, domainLower, pageId)]

\* one caption of extractUniqueDomains
ReadCaption(acc, cap, domain, brandInfo) ==
    FilterCaption(WithFullUrl(acc, domain, extractFullUrlFromCaption(cap.caption)),
                  domain, ToLowerCase(domain), PageOf(cap.ad), brandInfo)

\* allPages of extractUniqueDomains: every page of the ads with the number of its ads
CountPage(pages, pageId, name) ==
    IF KeyIndex(pages, pageId) = 0
    THEN Append(pages, [key |-> pageId, name |-> name, count |-> 1])
    ELSE [pages EXCEPT ![KeyIndex(pages, pageId)].count = @ + 1]

AllPagesOf(ads) ==
    LET G[i \in 0..Len(ads)] ==
            IF i = 0 THEN <<>>
            ELSE CountPage(G[i - 1], PageOf(ads[i]),
                           IF ads[i].page_name = Null
                           THEN <<"U","n","k","n","o","w","n">> ELSE ads[i].page_name)
    IN  G[Len(ads)]

\* what extractUniqueDomains returns of the maps it has filled
ExtractedMaps(acc, allPages) ==
    [domains |-> acc.domains, allPages |-> allPages,
     domainFullUrls |-> acc.domainFullUrls]

\* the captions of extractUniqueDomains read in order
ReadCaptions(caps, brandInfo) ==
    LET F[i \in 0..Len(caps)] ==
            IF i = 0
            THEN [domains |-> <<>>, brandDomains |-> OwnDomains(brandInfo),
                  domainFullUrls |-> <<>>]
            ELSE ReadCaption(F[i - 1], caps[i],
                             extractDomainFromCaption(caps[i].caption), brandInfo)
    IN  F[Len(caps)]

\* Step 5: the candidate domains of the ads with their pages and ad counts; the
\* brand's own domains, platform domains and domains holding an alias are left out
extractUniqueDomains(ads, brandInfo) ==
    ExtractedMaps(ReadCaptions(CaptionsOf(ads), brandInfo), AllPagesOf(ads))

\* combinedAdsMap: brand ads, then keyword ads, one entry per ad id (the later ad
\* takes the place of the earlier one)
CombineAds(brandAds, allAds) ==
    LET all == brandAds \o allAds
        F[i \in 0..Len(all)] ==
            IF i = 0 THEN <<>>
            ELSE LET prev == F[i - 1]
                 IN  IF \E k \in 1..Len(prev) : prev[k].id = all[i].id
                     THEN [prev EXCEPT
                              ![CHOOSE k \in 1..Len(prev) : prev[k].id = all[i].id] = all[i]]
                     ELSE Append(prev, all[i])
    IN  F[Len(all)]

\* seenAdIds merge of Step 2a: the ads not yet among brandAds are appended
MergeNewAds(brandAds, found) ==
    LET F[i \in 0..Len(found)] ==
            IF i = 0 THEN brandAds
            ELSE LET prev == F[i - 1]
                 IN  IF \E k \in 1..Len(prev) : prev[k].id = found[i].id
                     THEN prev ELSE Append(prev, found[i])
    IN  F[Len(found)]

\* Step 5b: the own domains of the confirmed third-party pages, from the keyword ads
PriorityFromConfirmed(priority, confirmed, allAds, brandInfo) ==
    LET Own(p) ==
            SelectSeq(DomainSetOf(AdsOfPage(allAds, p)),
                      LAMBDA d : /\ d # ToLowerCase(brandInfo.brand_domain)
                                 /\ ~HoldsAlias(d, brandInfo)
                                 /\ ~isSpamDomain(d))
        F[i \in 0..Len(confirmed)] ==
            IF i = 0 THEN priority ELSE AddAllUnique(F[i - 1], Own(confirmed[i]))
    IN  F[Len(confirmed)]

\* Step 5c: the other domains of non-official pages that also link to the brand
PriorityFromCrossReference(priority, allAds, brandInfo) ==
    LET brandDomain == ToLowerCase(brandInfo.brand_domain)
        pages == SelectSeq(PageIdsOf(allAds),
                           LAMBDA p : ~Has(brandInfo.official_page_ids, p))
        IsBrand(d) == d = brandDomain \/ HoldsAlias(d, brandInfo)
        Doms(p) == DomainSetOf(AdsOfPage(allAds, p))
        NonBrand(p) == SelectSeq(Doms(p), LAMBDA d : ~IsBrand(d) /\ ~isSpamDomain(d))
        F[i \in 0..Len(pages)] ==
            IF i = 0 THEN priority
            ELSE LET prev == F[i - 1]
                     doms == Doms(pages[i])
                 IN  IF \E k \in 1..Len(doms) : IsBrand(doms[k])
                     THEN AddAllUnique(prev, NonBrand(pages[i]))
                     ELSE prev
    IN  F[Len(pages)]

\* a sort that leaves the candidates in the order of the Map
InsertCandidate_Append(sorted, e, priority) == Append(sorted, e)

RECURSIVE InsertCandidate(_, _, _)
InsertCandidate(sorted, e, priority) ==
    LET Before(a, b) ==
            \/ Has(priority, a.key) /\ ~Has(priority, b.key)
            \/ (Has(priority, a.key) <=> Has(priority, b.key)) /\ a.count > b.count
    IN  IF sorted = <<>> THEN <<e>>
        ELSE IF Before(e, Head(sorted)) THEN <<e>> \o sorted
             ELSE <<Head(sorted)>> \o InsertCandidate(Tail(sorted), e, priority)

RECURSIVE SortCandidates(_, _)
\* thirdPartyDomains.sort: priority domains first, then by ad count; the sort is stable
SortCandidates(domains, priority) ==
    IF domains = <<>> THEN <<>>
    ELSE InsertCandidate(SortCandidates(SubSeq(domains, 1, Len(domains) - 1), priority),
                         domains[Len(domains)], priority)

\* the limit of Step 5: 0 means unlimited, undefined means 20
LimitCandidates(domains, max_domains_to_check) ==
    IF max_domains_to_check # 0 /\ Len(domains) > OrDefault(max_domains_to_check, 20)
    THEN Take(domains, OrDefault(max_domains_to_check, 20)) ELSE domains

\* Step 5d: domainToAds, the ads of each candidate domain, one entry per caption
\* of an ad that names the domain
BuildDomainToAds(combined, domains) ==
    LET caps == CaptionsOf(combined)
        F[i \in 0..Len(caps)] ==
            IF i = 0 THEN <<>>
            ELSE LET prev == F[i - 1]
                     domain == extractDomainFromCaption(caps[i].caption)
                     d == ToLowerCase(domain)
                     k == KeyIndex(prev, d)
                 IN  IF domain # Null /\ KeyIndex(domains, d) # 0
                     THEN IF k = 0 THEN Append(prev, [key |-> d, ads |-> <<caps[i].ad>>])
                          ELSE [prev EXCEPT ![k].ads = Append(@, caps[i].ad)]
                     ELSE prev
    IN  F[Len(caps)]

\* domainToAds.get(d), undefined read as the empty list
DomainAds(domainToAds, d) ==
    IF KeyIndex(domainToAds, d) = 0 THEN <<>>
    ELSE domainToAds[KeyIndex(domainToAds, d)].ads

-----------------------------------------------------------------------------
(* Step 7: the report                                                      *)

MatchTypes ==
    {"direct", "redirect", "shopify_vendor", "content_link", "content_match",
     "presell_cta", "checkout_match"}

NoMethods == [t \in MatchTypes |-> 0]

\* an error text of the pipeline, and the text String(error) of a failed ad-source call
S_Could_not_find_brand_domain ==
    <<"C","o","u","l","d"," ","n","o","t"," ","f","i","n","d"," ",
      "b","r","a","n","d"," ","d","o","m","a","i","n">>
S_from_Meta_ads == <<" ","f","r","o","m"," ","M","e","t","a"," ","a","d","s">>
S_MetaApiError  == <<"M","e","t","a","A","p","i","E","r","r","o","r",":"," ",
                     "H","T","T","P"," ","5","0","0">>

NoReport ==
    [returned |-> FALSE, success |-> FALSE, error |-> Null, brand |-> Null,
     brand_domain |-> Null,
     pages |-> [official |-> <<>>, third_party |-> <<>>],
     domains |-> [presell |-> <<>>, redirect |-> <<>>, final_shop |-> <<>>, all |-> <<>>],
     presell_chains |-> <<>>,
     scan_stats |-> [keywords_used |-> <<>>, total_ads_scanned |-> 0,
                     unique_domains_checked |-> 0, matches_found |-> 0,
                     detection_methods |-> NoMethods]]

makeErrorResponse(brand, error) ==
    [NoReport EXCEPT !.returned = TRUE, !.brand = brand, !.error = error]

RECURSIVE InsertPage(_, _)
InsertPage(sorted, e) ==
    IF sorted = <<>> THEN <<e>>
    ELSE IF \/ e.confidence > Head(sorted).confidence
            \/ e.confidence = Head(sorted).confidence /\ e.ad_count > Head(sorted).ad_count
         THEN <<e>> \o sorted
         ELSE <<Head(sorted)>> \o InsertPage(Tail(sorted), e)

RECURSIVE SortPages(_)
\* sort((a, b) => b.confidence - a.confidence || b.ad_count - a.ad_count), stable
SortPages(s) ==
    IF s = <<>> THEN <<>>
    ELSE InsertPage(SortPages(SubSeq(s, 1, Len(s) - 1)), s[Len(s)])

\* every later match of a page replaces the connection of the page
Higher_Always(match, existing) == TRUE

\* match.confidence > existing.confidence
Higher(match, existing) == match.confidence > existing.confidence

\* thirdPartyPagesMap: one entry per non-official page of the matched domains
ThirdPartyPagesMap(brandInfo, matchedDomains, allPages) ==
    LET pairs ==
            LET P[i \in 0..Len(matchedDomains)] ==
                    IF i = 0 THEN <<>>
                    ELSE P[i - 1] \o [k \in 1..Len(matchedDomains[i].page_ids) |->
                                         [m |-> matchedDomains[i],
                                          page |-> matchedDomains[i].page_ids[k]]]
            IN  P[Len(matchedDomains)]
        NameOf(pageId) ==
            IF KeyIndex(allPages, pageId) # 0 THEN allPages[KeyIndex(allPages, pageId)].name
            ELSE <<"U","n","k","n","o","w","n">>
        F[i \in 0..Len(pairs)] ==
            IF i = 0 THEN <<>>
            ELSE LET m == pairs[i].m
                     pageId == pairs[i].page
                     prev == F[i - 1]
                     k == KeyIndex(prev, pageId)
                 IN  IF Has(brandInfo.official_page_ids, pageId) THEN prev
                     ELSE IF k # 0
                     THEN [prev EXCEPT ![k] =
                             [@ EXCEPT
                                !.connection_type =
                                    IF Higher(m, prev[k]) THEN m.match_type ELSE @,
                                !.confidence =
                                    IF Higher(m, prev[k]) THEN m.confidence ELSE @,
                                !.domains_used = AddUnique(@, m.domain),
                                !.ad_count = @ + m.ad_count]]
                     ELSE Append(prev,
                                 [key |-> pageId, page_id |-> pageId,
                                  page_name |-> NameOf(pageId), ad_count |-> m.ad_count,
                                  connection_type |-> m.match_type,
                                  confidence |-> m.confidence, discovered_via |-> m.domain,
                                  domains_used |-> <<m.domain>>])
    IN  F[Len(pairs)]

\* every matched domain, whatever the type of its match
DomainsOfTypes_Any(matchedDomains, types) ==
    [i \in 1..Len(matchedDomains) |-> matchedDomains[i].domain]

DomainsOfTypes(matchedDomains, types) ==
    LET hits == SelectSeq(matchedDomains, LAMBDA m : m.match_type \in types)
    IN  [i \in 1..Len(hits) |-> hits[i].domain]

\* shopDomains; the brand's own domain is always put first, matched or not
ShopDomains(brandInfo, matchedDomains) ==
    LET shopDomains == DomainsOfTypes(matchedDomains, {"shopify_vendor", "direct"})
    IN  IF brandInfo.brand_domain # Null /\ ~Has(shopDomains, brandInfo.brand_domain)
        THEN <<brandInfo.brand_domain>> \o shopDomains ELSE shopDomains

buildDiscoveryResult(brandName, brandInfo, matchedDomains, allAds, allPages, keywords, detectionMethods, totalDomainsChecked) ==
    LET officialPages ==
            [i \in 1..Len(brandInfo.official_page_ids) |->
                LET pageId == brandInfo.official_page_ids[i]
                    k == KeyIndex(allPages, pageId)
                IN  [page_id |-> pageId,
                     page_name |-> IF k # 0 THEN allPages[k].name ELSE brandName,
                     ad_count |-> IF k # 0 THEN allPages[k].count ELSE 0,
                     is_official |-> TRUE]]
        presellDomains ==
            DomainsOfTypes(matchedDomains,
                           {"presell_cta", "content_link", "content_match", "checkout_match"})
        redirectDomains == DomainsOfTypes(matchedDomains, {"redirect"})
        shopDomains == ShopDomains(brandInfo, matchedDomains)
        chains == SelectSeq(matchedDomains,
                            LAMBDA m : m.match_type = "presell_cta" /\ m.redirect_chain # <<>>)
    IN  [returned |-> TRUE, success |-> TRUE, error |-> Null, brand |-> brandName,
         brand_domain |-> brandInfo.brand_domain,
         pages |-> [official |-> officialPages,
                    third_party |->
                        SortPages(ThirdPartyPagesMap(brandInfo, matchedDomains, allPages))],
         domains |-> [presell |-> presellDomains, redirect |-> redirectDomains,
                      final_shop |-> shopDomains,
                      all |-> Dedup(presellDomains \o redirectDomains \o shopDomains)],
         presell_chains |->
             [i \in 1..Len(chains) |->
                 [presell_domain |-> chains[i].domain, chain |-> chains[i].redirect_chain,
                  final_domain |-> IF chains[i].shop_domain # Null THEN chains[i].shop_domain
                                   ELSE brandInfo.brand_domain]],
         scan_stats |-> [keywords_used |-> keywords, total_ads_scanned |-> Len(allAds),
                         unique_domains_checked |-> totalDomainsChecked,
                         matches_found |-> Len(matchedDomains),
                         detection_methods |-> detectionMethods]]

-----------------------------------------------------------------------------
(* The world discoverBrand runs in: what the ad source, the sites of the   *)
(* candidate domains and the ad snapshots answer                           *)

S_b_io == <<"b",".","i","o">>
S_c_io == <<"c",".","i","o">>
S_d_io == <<"d",".","i","o">>
S_e_io == <<"e",".","i","o">>
S_f_io == <<"f",".","i","o">>
S_g_io == <<"g",".","i","o">>
S_h_io == <<"h",".","i","o">>
S_a_io_x == <<"a",".","i","o","/","x">>
S_One   == <<"O","n","e">>
S_Two   == <<"T","w","o">>
S_Three == <<"T","h","r","e","e">>
S_Four  == <<"F","o","u","r">>
S_Five  == <<"F","i","v","e">>
S_serum == <<"s","e","r","u","m">>
S_cream == <<"c","r","e","a","m">>
S_lotion == <<"l","o","t","i","o","n">>
S_glow_shop == <<"g","l","o","w","-","s","h","o","p">>

\* an answer of the ad source to one search: the ads found, or the call failed
Found(ads) == [ok |-> TRUE, ads |-> ads]
Failed     == [ok |-> FALSE, ads |-> <<>>]

BrandSearchAds ==
    << Ad("b1", "p0", S_Glow, <<S_glow_de>>, TRUE),
       Ad("b2", "p0", S_Glow, <<S_Glow_de>>, TRUE),
       Ad("b3", "p1", S_One, <<S_a_io>>, TRUE),
       Ad("b4", "p2", S_Two, <<S_glow_de>>, FALSE) >>

S_GLOW_SHOP_de == <<"G","L","O","W","-","S","H","O","P",".","d","e">>
S_glow_Shop_de == <<"g","l","o","w","-","S","h","o","p",".","d","e">>

\* brand ads whose first caption names another domain than most of them do
MinorityFirstAds ==
    << Ad("b3", "p1", S_One, <<S_a_io>>, TRUE),
       Ad("b7", "p0", S_Glow, <<S_GLOW_SHOP_de>>, TRUE),
       Ad("b8", "p0", S_Glow, <<S_glow_Shop_de>>, TRUE) >>

BrandSearchAnswers ==
    {Failed, Found(<<>>), Found(<<Ad("b0", "p0", S_Glow, <<>>, TRUE)>>), Found(BrandSearchAds),
     Found(MinorityFirstAds)}

DomainBaseAnswers ==
    {Failed, Found(<<Ad("b3", "p1", S_One, <<S_a_io>>, TRUE),
                     Ad("b5", "p3", S_Three, <<S_g_io>>, TRUE)>>)}

FullDomainAnswers ==
    {Failed, Found(<<>>), Found(<<Ad("b6", "p3", S_Three, <<S_glow_de, S_f_io>>, FALSE)>>)}

KeywordAds(keyword) ==
    IF keyword = S_serum
    THEN << Ad("k1", "p1", S_One, <<S_a_io_x>>, TRUE),
            Ad("k2", "p1", S_One, <<S_d_io>>, TRUE),
            Ad("k3", "p2", S_Two, <<S_b_io>>, TRUE),
            Ad("k4", "p4", S_Four, <<S_c_io>>, FALSE),
            Ad("k5", "p4", S_Four, <<S_e_io>>, TRUE),
            Ad("k9", "p4", S_Four, <<S_c_io, S_e_io>>, FALSE),
            Ad("k10", "p2", S_Two, <<S_h_io>>, TRUE) >>
    ELSE IF keyword = S_cream
    THEN << Ad("k6", "p5", S_Five, <<S_f_io>>, TRUE),
            Ad("k7", "p5", S_Five, <<S_g_io, S_facebook_com, S_whatsapp_com>>, TRUE),
            Ad("k8", "p0", S_Glow, <<S_f_io>>, TRUE),
            Ad("k1", "p1", S_One, <<S_a_io_x>>, TRUE) >>
    ELSE << Ad("k3", "p2", S_Two, <<S_b_io>>, TRUE),
            Ad("k11", NoPage, Null, <<S_a_io>>, TRUE) >>

KeywordAnswers(keyword) == {Failed, Found(KeywordAds(keyword))}

\* what generateKeywords extracts from the brand ads
KeywordCandidates == { <<>>, <<S_serum>>, <<S_serum, S_cream>> }

\* what refineKeywordsWithAI returns: null, or the refined keywords
AiAnswers == { Null, <<S_cream>>, <<S_cream, S_lotion>> }

NotShopify ==
    [ok |-> TRUE, is_shopify |-> FALSE, store_name |-> Null, vendor_name |-> Null,
     myshopify_domain |-> Null, og_site_name |-> Null]
ShopifyGlow ==
    [ok |-> TRUE, is_shopify |-> TRUE, store_name |-> S_glow_shop, vendor_name |-> S_Glow,
     myshopify_domain |-> S_glow_shop \o S_myshopify, og_site_name |-> Null]
ShopifyAnswers == {NotShopify, ShopifyGlow}

\* the site of each candidate domain
WorldSite(domain) ==
    CASE domain = S_a_io ->
            [DefaultSite EXCEPT !.homeOk = TRUE, !.finalHost = S_shop_glow_de,
                                !.html = Html_plain]
      [] domain = S_b_io ->
            [DefaultSite EXCEPT !.homeOk = TRUE, !.finalHost = S_b_io, !.html = Html_alias]
      [] domain = S_c_io ->
            [DefaultSite EXCEPT !.homeOk = TRUE, !.finalHost = S_c_io, !.html = Html_plain,
                                !.renderOk = TRUE, !.renderText = Html_link]
      [] domain = S_d_io ->
            [DefaultSite EXCEPT !.homeOk = TRUE, !.finalHost = S_d_io, !.html = Html_plain,
                                !.presellHome = Url(S_shop_glow_de, S_path_x)]
      [] domain = S_f_io ->
            [DefaultSite EXCEPT !.homeOk = TRUE, !.finalHost = S_f_io, !.html = Html_link]
      [] domain = S_g_io ->
            [DefaultSite EXCEPT !.homeOk = TRUE, !.finalHost = S_g_io, !.html = Html_shopify,
                                !.products = Products(TRUE, <<S_Other, S_Glow_GmbH>>)]
      [] domain = S_h_io ->
            [DefaultSite EXCEPT !.homeOk = TRUE, !.finalHost = S_h_io, !.html = Html_plain]
      [] OTHER -> DefaultSite

\* the landing page an ad snapshot leads to, when its extraction works
SnapshotLanding(adId) ==
    CASE adId = "k5" -> Url(S_glow_de, S_path_x)
      [] adId = "k3" -> Url(S_glow_de, S_path_x)
      [] adId = "k10" -> Url(S_glow_de, S_path_x)
      [] adId = "k1" -> Url(S_a_io, S_path_x)
      [] OTHER -> NoUrl

-----------------------------------------------------------------------------
(* discoverBrand: the orchestrator.  run.now is Date.now() - startTime in  *)
(* milliseconds; every awaited call takes one of the Durations.            *)

DOMAIN_CHECK_CONCURRENCY == 5
META_API_DELAY_MS == 300
MAX_KEYWORDS == 10
MIN_CONFIDENCE == 70
DEFAULT_TIMEOUT_MS == 55000

FastMs == 1000
SlowMs == 12000
Durations == {FastMs, SlowMs}

\* a deadline that is set whatever timeout_ms says
hasDeadline_Always(o) == TRUE

\* hasDeadline and pastDeadline(bufferMs) at the time now
hasDeadline(o) == o.timeout_ms # 0
pastDeadline(o, now, bufferMs) ==
    hasDeadline(o) /\ now > OrDefault(o.timeout_ms, DEFAULT_TIMEOUT_MS) - bufferMs

EmptyBrandInfo == BrandInfoOf(Null, <<>>, Null, Null, <<>>)

RunIdle ==
    [pc |-> "idle", now |-> 0, brandAds |-> <<>>, brandInfo |-> EmptyBrandInfo,
     priorityDomains |-> <<>>, confirmed |-> <<>>, candidates |-> <<>>,
     aiKeywords |-> Null, allKeywords |-> <<>>, kw |-> 1, allAds |-> <<>>, domainToAds |-> <<>>,
     domains |-> <<>>, allPages |-> <<>>, domainFullUrls |-> <<>>,
     thirdPartyDomains |-> <<>>, admitted |-> <<>>, enrich |-> <<>>, ei |-> 0, i |-> 0,
     checks |-> <<>>, matchedDomains |-> <<>>, checkedCount |-> 0,
     detectionMethods |-> NoMethods, skipped |-> <<>>,
     enriched |-> 0, inflight |-> {}, results |-> <<>>]

RunStart == [RunIdle EXCEPT !.pc = "step2"]

\* the options of the worker, of the edge function, the defaults, two with a
\* limit, and the defaults with a key for the rendering service
OptionSets ==
    { [timeout_ms |-> 0, max_domains_to_check |-> 0, max_keywords |-> 8,
       keywords |-> <<>>, scrapingbee_key |-> TRUE, openai_key |-> TRUE,
       use_headless |-> TRUE, use_headless_for_domains |-> TRUE],
      [timeout_ms |-> 50000, max_domains_to_check |-> 15, max_keywords |-> 3,
       keywords |-> <<>>, scrapingbee_key |-> FALSE, openai_key |-> TRUE,
       use_headless |-> FALSE, use_headless_for_domains |-> FALSE],
      [timeout_ms |-> Undefined, max_domains_to_check |-> Undefined,
       max_keywords |-> Undefined,
       keywords |-> <<>>, scrapingbee_key |-> FALSE, openai_key |-> FALSE,
       use_headless |-> FALSE, use_headless_for_domains |-> FALSE],
      [timeout_ms |-> Undefined, max_domains_to_check |-> 6, max_keywords |-> 2,
       keywords |-> <<S_serum>>, scrapingbee_key |-> TRUE, openai_key |-> TRUE,
       use_headless |-> FALSE, use_headless_for_domains |-> FALSE],
      [timeout_ms |-> 0, max_domains_to_check |-> 6, max_keywords |-> Undefined,
       keywords |-> <<>>, scrapingbee_key |-> FALSE, openai_key |-> FALSE,
       use_headless |-> FALSE, use_headless_for_domains |-> FALSE],
      [timeout_ms |-> Undefined, max_domains_to_check |-> Undefined,
       max_keywords |-> Undefined,
       keywords |-> <<>>, scrapingbee_key |-> TRUE, openai_key |-> FALSE,
       use_headless |-> FALSE, use_headless_for_domains |-> FALSE] }

BrandNames == {Null, S_Glow}

PipeIdle ==
    /\ opt = [brandName |-> Null, options |-> CHOOSE o \in OptionSets : o.timeout_ms = 50000]
    /\ run = RunIdle
    /\ report = NoReport
    /\ net = <<>>

\* no redirect resolver is running
ResolverIdle ==
    rr = [pc |-> "idle", resolver |-> "none", web |-> <<>>, initialUrl |-> NoUrl,
          currentUrl |-> NoUrl, chain |-> <<>>, count |-> 0, fetches |-> 0, faults |-> 0]

\* no call of extractLandingPageUrl is being followed
ExtractIdle ==
    ex = [pc |-> "idle", html |-> <<>>, web |-> <<>>, ok |-> FALSE, url |-> Null,
          result |-> NoUrl]

\* no call of generateKeywords is being followed
KeywordsIdle ==
    kg = [pc |-> "idle", ads |-> <<>>, brandName |-> Null, maxKeywords |-> 0,
          keywords |-> <<>>]

\* undefined country of a request, and the report of no run
NoCountry == ""
NoData == [brand |-> <<>>, country |-> NoCountry, success |-> FALSE]

\* the worker after its start: no job, no request, an empty cache
WorkerStopped ==
    [jobs |-> <<>>, jobQueue |-> <<>>, isProcessing |-> FALSE, current |-> 0,
     pc |-> "idle", supabase |-> FALSE, cache |-> <<>>, lookups |-> {}, limit |-> 0,
     answer |-> [endpoint |-> "none", status |-> "none", job_id |-> 0, data |-> NoData,
                 req |-> [json |-> "null", brand |-> <<>>, country |-> NoCountry,
                          force_refresh |-> FALSE]],
     now |-> 1]

\* the worker is not followed
WorkerIdle == wk = WorkerStopped

Init ==
    /\ opt \in [brandName : BrandNames, options : OptionSets]
    /\ run = RunStart
    /\ report = NoReport
    /\ net = <<>>
    /\ CheckIdle
    /\ ResolverIdle
    /\ ExtractIdle /\ KeywordsIdle /\ WorkerIdle

\* the catch of the whole pipeline: return makeErrorResponse(brandName, String(error))
Thrown(r) ==
    /\ run' = [r EXCEPT !.pc = "returned"]
    /\ report' = makeErrorResponse(opt.brandName, S_MetaApiError)

Skipped(r, stage) == [r EXCEPT !.skipped = Append(@, stage)]

\* Step 2: the brand-name search
BrandSearch ==
    /\ run.pc = "step2"
    /\ net' = Append(net, "search_brand")
    /\ \E ans \in BrandSearchAnswers, d \in Durations :
          LET r == [run EXCEPT !.now = @ + d]
          IN  IF ~ans.ok THEN Thrown(r)
              ELSE /\ run' = [r EXCEPT !.pc = "findBrand", !.brandAds = ans.ads]
                   /\ UNCHANGED report
    /\ UNCHANGED <<opt, cin, cst, rr, ex, kg, wk>>

\* findBrandDomain's outcome is taken on without the early return
FoundBrand_Continues(info, shopify, d) ==
    /\ run' = [run EXCEPT !.pc = "base", !.brandInfo = info, !.now = @ + d]
    /\ net' = Append(net, "detect_shopify")
    /\ UNCHANGED report

\* what follows findBrandDomain: the early return when no brand domain was found
FoundBrand(info, shopify, d) ==
    IF info.brand_domain = Null
    THEN /\ shopify = NotShopify /\ d = FastMs
         /\ run' = [run EXCEPT !.pc = "returned", !.brandInfo = info]
         /\ report' = makeErrorResponse(opt.brandName,
                           S_Could_not_find_brand_domain \o S_from_Meta_ads)
         /\ UNCHANGED net
    ELSE /\ run' = [run EXCEPT !.pc = "base", !.brandInfo = info, !.now = @ + d]
         /\ net' = Append(net, "detect_shopify")
         /\ UNCHANGED report

\* Step 2: findBrandDomain, which asks detectShopifyStore about the domain it found
FindBrand ==
    /\ run.pc = "findBrand"
    /\ \E shopify \in ShopifyAnswers, d \in Durations :
          FoundBrand(findBrandDomain(opt.brandName, run.brandAds, shopify), shopify, d)
    /\ UNCHANGED <<opt, cin, cst, rr, ex, kg, wk>>

\* Step 2a, search 1: the domain base; then the deadline check before search 2
DomainBaseSearch ==
    /\ run.pc = "base"
    /\ net' = Append(net, "search_base")
    /\ \E ans \in DomainBaseAnswers, d \in Durations :
          LET r == [run EXCEPT !.now = @ + d]
          IN  IF ~ans.ok THEN Thrown(r)
              ELSE /\ run' = IF pastDeadline(opt.options, r.now, 40000)
                             THEN [Skipped(r, "full_search") EXCEPT
                                      !.pc = "step3",
                                      !.brandAds = MergeNewAds(@, ans.ads)]
                             ELSE [r EXCEPT !.pc = "full",
                                            !.brandAds = MergeNewAds(@, ans.ads)]
                   /\ UNCHANGED report
    /\ UNCHANGED <<opt, cin, cst, rr, ex, kg, wk>>

\* Step 2a, search 2: the full domain
FullDomainSearch ==
    /\ run.pc = "full"
    /\ net' = Append(net, "search_full")
    /\ \E ans \in FullDomainAnswers, d \in Durations :
          LET r == [run EXCEPT !.now = @ + d]
          IN  IF ~ans.ok THEN Thrown(r)
              ELSE /\ run' = [r EXCEPT !.pc = "step3", !.brandAds = MergeNewAds(@, ans.ads)]
                   /\ UNCHANGED report
    /\ UNCHANGED <<opt, cin, cst, rr, ex, kg, wk>>

\* the keywords without the refined ones
FinalKeywords_RawOnly(aiKeywords, candidates) ==
    LET effectiveMaxKeywords == OrDefault(opt.options.max_keywords, MAX_KEYWORDS)
        allKeywords == Take(Dedup(opt.options.keywords \o Take(candidates, effectiveMaxKeywords)),
                            effectiveMaxKeywords)
    IN  IF allKeywords = <<>> THEN <<opt.brandName>> ELSE allKeywords

\* allKeywords: the user's keywords, then the refined or else the extracted ones
FinalKeywords(aiKeywords, candidates) ==
    LET effectiveMaxKeywords == OrDefault(opt.options.max_keywords, MAX_KEYWORDS)
        baseKeywords == IF aiKeywords # Null THEN aiKeywords
                        ELSE Take(candidates, effectiveMaxKeywords)
        allKeywords == Take(Dedup(opt.options.keywords \o baseKeywords), effectiveMaxKeywords)
    IN  IF allKeywords = <<>> THEN <<opt.brandName>> ELSE allKeywords

\* the deadline check before the refinement of the keyword candidates
BeforeRefine(r, candidates) ==
    IF opt.options.openai_key /\ candidates # <<>>
       /\ ~pastDeadline(opt.options, r.now, 35000)
    THEN [r EXCEPT !.pc = "ai"]
    ELSE [(IF opt.options.openai_key /\ candidates # <<>>
           THEN Skipped(r, "ai_refinement") ELSE r)
          EXCEPT !.pc = "step4", !.allKeywords = FinalKeywords(Null, candidates)]

\* the run with the outcome of detectBrandSearchThirdParty and the candidates
WithBrandSearchThirdParty(found, candidates) ==
    [run EXCEPT !.priorityDomains = found.priorityDomains,
                !.confirmed = found.confirmedThirdPartyPageIds,
                !.candidates = candidates]

\* Steps 2b and 3: the priority candidates, the keyword candidates, and the
\* decision whether there is time to refine them
Step3 ==
    /\ run.pc = "step3"
    /\ \E candidates \in KeywordCandidates :
          run' = BeforeRefine(
                     WithBrandSearchThirdParty(
                         detectBrandSearchThirdParty(run.brandAds, run.brandInfo),
                         candidates),
                     candidates)
    /\ UNCHANGED <<opt, report, net, cin, cst, rr, ex, kg, wk>>

\* Step 3: refineKeywordsWithAI, which returns null on every failure
RefineAI ==
    /\ run.pc = "ai"
    /\ net' = Append(net, "ai_refine")
    /\ \E aiKeywords \in AiAnswers, d \in Durations :
          run' = [run EXCEPT !.now = @ + d, !.pc = "step4", !.aiKeywords = aiKeywords,
                             !.allKeywords = FinalKeywords(aiKeywords, run.candidates)]
    /\ UNCHANGED <<opt, report, cin, cst, rr, ex, kg, wk>>

\* Step 4: one iteration of searchAllAdsForKeywords; a failed search is caught
KeywordSearch ==
    /\ run.pc = "step4"
    /\ net' = Append(net, "search_keyword")
    /\ \E ans \in KeywordAnswers(run.allKeywords[run.kw]), d \in Durations :
          LET r == IF ans.ok
                   THEN [run EXCEPT !.now = @ + d + META_API_DELAY_MS,
                                    !.allAds = MergeNewAds(@, ans.ads), !.kw = @ + 1]
                   ELSE [run EXCEPT !.now = @ + d, !.kw = @ + 1]
          IN  run' = IF r.kw > Len(r.allKeywords) THEN [r EXCEPT !.pc = "step5"] ELSE r
    /\ UNCHANGED <<opt, report, cin, cst, rr, ex, kg, wk>>

\* a batch loop that forgets the matches collected when the deadline stops it
Loop6_DropMatches(r) ==
    IF r.i >= Len(r.thirdPartyDomains) THEN [r EXCEPT !.pc = "step7"]
    ELSE IF pastDeadline(opt.options, r.now, 3000)
         THEN [Skipped(r, "domain_checks_rest") EXCEPT !.pc = "step7",
                                                       !.matchedDomains = <<>>]
         ELSE [r EXCEPT !.pc = "check"]

\* the head of the Step 6 batch loop: done, or stopped by the deadline, or a batch
Loop6(r) ==
    IF r.i >= Len(r.thirdPartyDomains) THEN [r EXCEPT !.pc = "step7"]
    ELSE IF pastDeadline(opt.options, r.now, 3000)
         THEN [Skipped(r, "domain_checks_rest") EXCEPT !.pc = "step7"]
         ELSE [r EXCEPT !.pc = "check"]

\* the entry of Step 6: with less than 10 s left no domain is checked at all
Enter6(r) ==
    IF pastDeadline(opt.options, r.now, 10000)
    THEN Loop6([Skipped(r, "domain_checks") EXCEPT !.thirdPartyDomains = <<>>, !.i = 0])
    ELSE Loop6([r EXCEPT !.i = 0])

\* the head of the Step 5e batch loop
Loop5e(r) ==
    IF r.ei >= Len(r.enrich) THEN Enter6(r)
    ELSE IF pastDeadline(opt.options, r.now, 15000)
         THEN Enter6(Skipped(r, "enrichment_rest"))
         ELSE [r EXCEPT !.pc = "enrich"]

\* use_headless_for_domains ?? false
useHeadlessForDomains == opt.options.use_headless_for_domains

\* headless rendering for the domain checks, only when both options ask for it
domainCheckHeadless == useHeadlessForDomains /\ opt.options.use_headless

ENRICH_CONCURRENCY == IF opt.options.scrapingbee_key THEN 3 ELSE 5

maxEnrich ==
    IF opt.options.scrapingbee_key
    THEN (IF opt.options.timeout_ms = 0 THEN 30 ELSE 6)
    ELSE Min(OrDefault(opt.options.max_domains_to_check, 20), 20)

\* the entry of Step 5e: skipped with less than 20 s left
Enter5e(r) ==
    IF pastDeadline(opt.options, r.now, 20000)
    THEN Enter6(Skipped(r, "enrichment"))
    ELSE Loop5e([r EXCEPT !.enrich = Take(r.thirdPartyDomains, maxEnrich), !.ei = 0])

\* the keys of a Map, in order
Keys(m) == [k \in 1..Len(m) |-> m[k].key]

\* the run after Steps 5 to 5d
WithCandidates(combined, ext, priority, names) ==
    [run EXCEPT !.domainToAds = BuildDomainToAds(combined, ext.domains),
                !.domains = ext.domains,
                !.allPages = ext.allPages,
                !.domainFullUrls = ext.domainFullUrls,
                !.priorityDomains = priority,
                !.thirdPartyDomains = names, !.admitted = names]

\* the order and the limit of the candidates
SortAndLimit(combined, ext, priority) ==
    WithCandidates(combined, ext, priority,
        Keys(LimitCandidates(SortCandidates(ext.domains, priority),
                             opt.options.max_domains_to_check)))

\* Steps 5b and 5c: the priority candidates
WithPriority(combined, ext) ==
    SortAndLimit(combined, ext,
        PriorityFromCrossReference(
            PriorityFromConfirmed(run.priorityDomains, run.confirmed,
                                  run.allAds, run.brandInfo),
            run.allAds, run.brandInfo))

\* Step 5: the candidate domains of the combined ads
WithDomains(combined) ==
    WithPriority(combined, extractUniqueDomains(combined, run.brandInfo))

\* Steps 5 to 5d: the candidate domains, the priority candidates, the order and
\* the limit; then the deadline checks that lead into Step 5e or Step 6
Step5 ==
    /\ run.pc = "step5"
    /\ run' = Enter5e(WithDomains(CombineAds(run.brandAds, run.allAds)))
    /\ UNCHANGED <<opt, report, net, cin, cst, rr, ex, kg, wk>>

\* Step 5e for one domain: its first two ads with a snapshot are tried in turn
\* and the first landing URL extracted is filed under the domain
EnrichDomain(fullUrls, domain, ok) ==
    LET adsWithSnapshot ==
            Take(SelectSeq(DomainAds(run.domainToAds, domain), LAMBDA a : a.ad_snapshot_url), 2)
        Extracted(a) == IF ok THEN SnapshotLanding(a.id) ELSE NoUrl
        hits == SelectSeq(adsWithSnapshot, LAMBDA a : Extracted(a) # NoUrl)
    IN  [fullUrls |-> IF hits = <<>> THEN fullUrls
                      ELSE AddFullUrl(fullUrls, domain, Extracted(hits[1])),
         enriched |-> IF hits = <<>> THEN 0 ELSE 1,
         tried |-> IF hits = <<>> THEN Len(adsWithSnapshot)
                   ELSE CHOOSE k \in 1..Len(adsWithSnapshot) :
                           /\ adsWithSnapshot[k] = hits[1]
                           /\ \A j \in 1..(k - 1) : adsWithSnapshot[j] # hits[1]]

\* Step 5e: one batch of snapshot extractions
EnrichBatch ==
    /\ run.pc = "enrich"
    /\ \E ok \in BOOLEAN, d \in Durations :
          LET batch == SubSeq(run.enrich, run.ei + 1,
                              Min(run.ei + ENRICH_CONCURRENCY, Len(run.enrich)))
              F[k \in 0..Len(batch)] ==
                  IF k = 0 THEN [fullUrls |-> run.domainFullUrls, enriched |-> 0, tried |-> 0]
                  ELSE LET prev == F[k - 1]
                           e == EnrichDomain(prev.fullUrls, batch[k], ok)
                       IN  [fullUrls |-> e.fullUrls, enriched |-> prev.enriched + e.enriched,
                            tried |-> prev.tried + e.tried]
          IN  /\ run' = Loop5e([run EXCEPT !.now = @ + d,
                                           !.domainFullUrls = F[Len(batch)].fullUrls,
                                           !.enriched = @ + F[Len(batch)].enriched,
                                           !.ei = @ + ENRICH_CONCURRENCY])
              /\ net' = net \o [k \in 1..F[Len(batch)].tried |-> "snapshot"]
    /\ UNCHANGED <<opt, report, cin, cst, rr, ex, kg, wk>>

\* result.page_ids and result.ad_count are set from the domain's entry
WithPages(st, entry) ==
    [result |-> [st.result EXCEPT !.page_ids = entry.pages, !.ad_count = entry.count],
     net |-> st.net]

\* a check that takes a priority candidate for a match without looking further
CheckOf_PriorityMatches(domain) ==
    LET check == WithPages(checkDomainForBrand(domain, run.brandInfo,
                               [use_headless |-> domainCheckHeadless, scrapingbee_key |-> opt.options.scrapingbee_key,
                                domainAds |-> DomainAds(run.domainToAds, ToLowerCase(domain)),
                                domainFullUrls |-> UrlsOf(run.domainFullUrls, ToLowerCase(domain))],
                               WorldSite(domain)),
                           run.domains[KeyIndex(run.domains, domain)])
    IN  IF Has(run.priorityDomains, ToLowerCase(domain))
        THEN [check EXCEPT !.result.is_match = TRUE, !.result.match_type = "direct",
                           !.result.confidence = 100]
        ELSE check

\* the check of one domain of a Step 6 batch, with its pages and ad count set
CheckOf(domain) ==
    WithPages(checkDomainForBrand(domain, run.brandInfo,
                  [use_headless |-> domainCheckHeadless, scrapingbee_key |-> opt.options.scrapingbee_key,
                   domainAds |-> DomainAds(run.domainToAds, ToLowerCase(domain)),
                   domainFullUrls |-> UrlsOf(run.domainFullUrls, ToLowerCase(domain))],
                  WorldSite(domain)),
              run.domains[KeyIndex(run.domains, domain)])

\* the network calls of a batch of checks, in the order of the batch
CallsOf(results) ==
    LET C[k \in 0..Len(results)] == IF k = 0 THEN <<>> ELSE C[k - 1] \o results[k].net
    IN  C[Len(results)]

\* the matches of a batch are collected and counted by match type
Collected(r, checks, matches) ==
    [r EXCEPT !.checkedCount = @ + Len(checks),
              !.checks = @ \o checks,
              !.matchedDomains = @ \o matches,
              !.detectionMethods =
                  [t \in MatchTypes |->
                      @[t] + Len(SelectSeq(matches, LAMBDA c : c.match_type = t))]]

\* the end of a batch: the delay before the next one and the head of the loop
AfterBatch(results, checks, d, more) ==
    /\ run' = Loop6(Collected([run EXCEPT !.now = @ + d + (IF more THEN 100 ELSE 0),
                                          !.i = @ + DOMAIN_CHECK_CONCURRENCY],
                              checks, SelectSeq(checks, LAMBDA c : c.is_match)))
    /\ net' = net \o CallsOf(results)

\* the checks of a batch, all of them run to the end
BatchResults(results, d, more) ==
    AfterBatch(results, [k \in 1..Len(results) |-> results[k].result], d, more)

\* the domains of the batch that starts at index i
BatchAt(domains, i) ==
    SubSeq(domains, i + 1, Min(i + DOMAIN_CHECK_CONCURRENCY, Len(domains)))

\* Step 6: one batch of domain checks, its matches collected
CheckBatch ==
    /\ run.pc = "check"
    /\ \E d \in Durations :
          BatchResults([k \in 1..Len(BatchAt(run.thirdPartyDomains, run.i)) |->
                           CheckOf(BatchAt(run.thirdPartyDomains, run.i)[k])],
                       d, run.i + DOMAIN_CHECK_CONCURRENCY < Len(run.thirdPartyDomains))
    /\ UNCHANGED <<opt, report, cin, cst, rr, ex, kg, wk>>

\* every match of Step 6, whatever its confidence
FilterMatches_None(matchedDomains) == matchedDomains

\* the matches of Step 6 that reach MIN_CONFIDENCE
FilterMatches(matchedDomains) ==
    SelectSeq(matchedDomains, LAMBDA m : ~(m.confidence < MIN_CONFIDENCE))

\* Step 7: the report is built from the matches that passed the filter
BuildResult ==
    /\ run.pc = "step7"
    /\ report' = buildDiscoveryResult(opt.brandName, run.brandInfo,
                      FilterMatches(run.matchedDomains), run.allAds, run.allPages,
                      run.allKeywords, run.detectionMethods, Len(run.thirdPartyDomains))
    /\ run' = [run EXCEPT !.pc = "returned"]
    /\ UNCHANGED <<opt, net, cin, cst, rr, ex, kg, wk>>

Next ==
    \/ BrandSearch \/ FindBrand \/ DomainBaseSearch \/ FullDomainSearch
    \/ Step3 \/ RefineAI \/ KeywordSearch \/ Step5 \/ EnrichBatch \/ CheckBatch
    \/ BuildResult

Spec == Init /\ [][Next]_vars

-----------------------------------------------------------------------------
(* SpecBatch: discoverBrand with the items of a batch resolved one by one.  *)
(* run.inflight holds the items of the batch under Promise.all that have    *)
(* not resolved yet, run.results what the resolved items have returned.     *)

\* the domains of the Step 5e batch that starts at index ei
EnrichBatchAt(domains, ei) ==
    SubSeq(domains, ei + 1, Min(ei + ENRICH_CONCURRENCY, Len(domains)))

\* Step 5e: batch.map starts one item for every domain of the batch
EnrichBegin ==
    /\ run.pc = "enrich"
    /\ run' = [run EXCEPT !.pc = "enriching",
                          !.inflight = 1..Len(EnrichBatchAt(run.enrich, run.ei))]
    /\ UNCHANGED <<opt, report, net, cin, cst, rr, ex, kg, wk>>

\* the run after one item of Step 5e: what the item has extracted is filed in
\* domainFullUrls and counted by the item itself, before it resolves
EnrichedBy(e, k) ==
    [run EXCEPT !.domainFullUrls = e.fullUrls,
                !.enriched = @ + e.enriched,
                !.inflight = @ \ {k}]

\* Step 5e: one item of the batch runs to its end
EnrichItem ==
    /\ run.pc = "enriching"
    /\ \E k \in run.inflight, ok \in BOOLEAN :
          LET e == EnrichDomain(run.domainFullUrls,
                                EnrichBatchAt(run.enrich, run.ei)[k], ok)
          IN  /\ run' = EnrichedBy(e, k)
              /\ net' = net \o [j \in 1..e.tried |-> "snapshot"]
    /\ UNCHANGED <<opt, report, cin, cst, rr, ex, kg, wk>>

\* Step 5e: Promise.all has resolved; the head of the loop
EnrichEnd ==
    /\ run.pc = "enriching"
    /\ run.inflight = {}
    /\ \E d \in Durations :
          run' = Loop5e([run EXCEPT !.now = @ + d, !.ei = @ + ENRICH_CONCURRENCY])
    /\ UNCHANGED <<opt, report, net, cin, cst, rr, ex, kg, wk>>

\* Step 6: batch.map starts one check for every domain of the batch
CheckBegin ==
    /\ run.pc = "check"
    /\ run' = [run EXCEPT !.pc = "checking", !.results = <<>>,
                          !.inflight = 1..Len(BatchAt(run.thirdPartyDomains, run.i))]
    /\ UNCHANGED <<opt, report, net, cin, cst, rr, ex, kg, wk>>

\* the run after one check of Step 6: the item returns its check, which
\* Promise.all keeps at the index of the item
ReturnedBy(check, k) ==
    [run EXCEPT !.results = [j \in (DOMAIN @) \cup {k} |-> IF j = k THEN check ELSE @[j]],
                !.inflight = @ \ {k}]

\* Step 6: one check of the batch runs to its end
CheckItem ==
    /\ run.pc = "checking"
    /\ \E k \in run.inflight :
          LET check == CheckOf(BatchAt(run.thirdPartyDomains, run.i)[k])
          IN  /\ run' = ReturnedBy(check, k)
              /\ net' = net \o check.net
    /\ UNCHANGED <<opt, report, cin, cst, rr, ex, kg, wk>>

\* Step 6: Promise.all has resolved; the results are collected in the order of
\* the batch
CheckEnd ==
    /\ run.pc = "checking"
    /\ run.inflight = {}
    /\ \E d \in Durations :
          run' = Loop6(Collected([run EXCEPT !.now = @ + d +
                                      (IF run.i + DOMAIN_CHECK_CONCURRENCY
                                             < Len(run.thirdPartyDomains)
                                       THEN 100 ELSE 0),
                                    !.i = @ + DOMAIN_CHECK_CONCURRENCY,
                                    !.results = <<>>],
                       [k \in 1..Len(run.results) |-> run.results[k].result],
                       SelectSeq([k \in 1..Len(run.results) |-> run.results[k].result],
                                 LAMBDA c : c.is_match)))
    /\ UNCHANGED <<opt, report, net, cin, cst, rr, ex, kg, wk>>

BatchNext ==
    \/ BrandSearch \/ FindBrand \/ DomainBaseSearch \/ FullDomainSearch
    \/ Step3 \/ RefineAI \/ KeywordSearch \/ Step5
    \/ EnrichBegin \/ EnrichItem \/ EnrichEnd
    \/ CheckBegin \/ CheckItem \/ CheckEnd
    \/ BuildResult

\* the options of the runs followed item by item: keywords of the user and a
\* limit of three or four domains, with and without a key for the rendering
\* service
BatchOptionSets ==
    { [timeout_ms |-> Undefined, max_domains_to_check |-> 3, max_keywords |-> 2,
       keywords |-> <<S_serum>>, scrapingbee_key |-> TRUE, openai_key |-> TRUE,
       use_headless |-> FALSE, use_headless_for_domains |-> FALSE],
      [timeout_ms |-> Undefined, max_domains_to_check |-> 4, max_keywords |-> 2,
       keywords |-> <<S_serum>>, scrapingbee_key |-> FALSE, openai_key |-> TRUE,
       use_headless |-> FALSE, use_headless_for_domains |-> FALSE] }

BatchInit ==
    /\ opt \in [brandName : BrandNames, options : BatchOptionSets]
    /\ run = RunStart
    /\ report = NoReport
    /\ net = <<>>
    /\ CheckIdle
    /\ ResolverIdle
    /\ ExtractIdle /\ KeywordsIdle /\ WorkerIdle

SpecBatch == BatchInit /\ [][BatchNext]_vars

-----------------------------------------------------------------------------
(* SpecCheck: one call of checkDomainForBrand, the network answering freely *)

CheckInit ==
    /\ PipeIdle /\ ResolverIdle /\ ExtractIdle /\ KeywordsIdle /\ WorkerIdle
    /\ cin \in [domain : CheckDomains, brandInfo : CheckBrandInfos,
                opts : [use_headless : BOOLEAN, scrapingbee_key : BOOLEAN, domainAds : CheckAds,
                        domainFullUrls : CheckFullUrls],
                site : {DefaultSite}]
    /\ cst = CheckStart(cin.domain)

Act6a ==
    /\ cst.pc = "6a"
    /\ cst' = Do6a(cin, cst)
    /\ UNCHANGED cin
    /\ UNCHANGED <<opt, run, report, net, rr, ex, kg, wk>>

Act6b ==
    /\ cst.pc = "6b"
    /\ \E ok \in BOOLEAN, host \in {cin.domain} \cup RedirectHosts, html \in HtmlAnswers :
          /\ ~ok => (host = cin.domain /\ html = <<>>)
          /\ cin' = [cin EXCEPT !.site.homeOk = ok, !.site.finalHost = host,
                                !.site.html = html]
    /\ cst' = Do6b(cin', cst)
    /\ UNCHANGED <<opt, run, report, net, rr, ex, kg, wk>>

\* 6c asks for /products.json: the page is a Shopify page and the brand has a vendor
VendorCheckMade(in) ==
    /\ in.site.html # <<>>
    /\ Includes(ToLowerCase(in.site.html), S_cdn_shopify)
    /\ in.brandInfo.vendor_name # Null

Act6c ==
    /\ cst.pc = "6c"
    /\ \E products \in VendorAnswers :
          /\ ~VendorCheckMade(cin) => products = DefaultSite.products
          /\ cin' = [cin EXCEPT !.site.products = products]
    /\ cst' = Do6c(cin', cst)
    /\ UNCHANGED <<opt, run, report, net, rr, ex, kg, wk>>

ActContent ==
    /\ cst.pc = "content"
    /\ cst' = DoContent(cin, cst)
    /\ UNCHANGED cin
    /\ UNCHANGED <<opt, run, report, net, rr, ex, kg, wk>>

Act6d ==
    /\ cst.pc = "6d"
    /\ \E home \in PresellAnswers, landing \in PresellAnswers, products \in ProductAnswers :
          cin' = [cin EXCEPT !.site.presellHome = home, !.site.presellLanding = landing,
                             !.site.ctaProducts = products]
    /\ cst' = Do6d(cin', cst)
    /\ UNCHANGED <<opt, run, report, net, rr, ex, kg, wk>>

Act6f ==
    /\ cst.pc = "6f"
    /\ \E ok \in BOOLEAN, html \in {Html_plain, Html_link, Html_alias} :
          /\ ~ok => html = Html_plain
          /\ cin' = [cin EXCEPT !.site.landingOk = ok, !.site.landingHtml = html]
    /\ cst' = Do6f(cin', cst)
    /\ UNCHANGED <<opt, run, report, net, rr, ex, kg, wk>>

ActDual ==
    /\ cst.pc = "dual"
    /\ cst' = DoDual(cin, cst)
    /\ UNCHANGED cin
    /\ UNCHANGED <<opt, run, report, net, rr, ex, kg, wk>>

Act6g ==
    /\ cst.pc = "6g"
    /\ \E r \in RenderAnswers, dest \in {Null, S_glow_de} :
          cin' = [cin EXCEPT !.site.renderOk = r.ok, !.site.renderHrefs = r.hrefs,
                             !.site.renderText = r.text, !.site.ctaDest = dest]
    /\ cst' = Do6g(cin', cst)
    /\ UNCHANGED <<opt, run, report, net, rr, ex, kg, wk>>

CheckNext == Act6a \/ Act6b \/ Act6c \/ ActContent \/ Act6d \/ Act6f \/ ActDual \/ Act6g

SpecCheck == CheckInit /\ [][CheckNext]_vars

-----------------------------------------------------------------------------
(* SpecResolve: the four redirect resolvers, each following the redirects  *)
(* of a small web from an initial URL.  rr = [pc, resolver, web,           *)
(* initialUrl, currentUrl, chain, count, fetches, faults]: web gives the   *)
(* Location header each host answers with (NoUrl for none), count is the   *)
(* loop counter, fetches the requests made, faults the requests that threw *)

MAX_REDIRECTS == 10
maxRedirects == 10
\* the default of the parameter maxRedirects of followRedirectsWithChain
chainMaxRedirects == 10
\* the redirect limit that followToFinalUrl passes to followRedirectsWithChain
followToFinalMax == 5

Resolvers == {"redirect-tracker", "url-extractor", "presell-tracker", "follow-with-chain"}

Hosts == {S_a_io, S_b_io, S_c_io}

\* the URLs a caller passes in: with or without the root path
InitialUrls == {Url(h, p) : h \in Hosts, p \in {Null, S_slash}}

\* a host that answers every request with a redirect to a path it has not named
\* before: the path of the request with one more character
Onward == Url(Null, <<"+">>)

\* the values of a Location header: absolute URLs, the relative "/", and the
\* ever new path of an endless chain of redirects
Locations == InitialUrls \cup {Url(Null, S_slash), Onward}

\* new URL(location, base).toString(): a relative location takes the host of the
\* base, the host is lower-cased and an empty path becomes "/"
ResolveUrl(location, base) ==
    Url(ToLowerCase(IF location.host = Null THEN base.host ELSE location.host),
        IF location.path = Null THEN S_slash ELSE location.path)

\* the Location header of the 3xx response to a request of url, NoUrl for none
LocationOf(web, url) ==
    IF web[ToLowerCase(url.host)] = Onward
    THEN Url(url.host, (IF url.path = Null THEN S_slash ELSE url.path) \o <<"n">>)
    ELSE web[ToLowerCase(url.host)]

\* what extractMetaRefreshUrl can find in the HTML of a page
MetaRefreshUrls == {NoUrl, Url(S_a_io, S_slash), Url(S_b_io, S_slash)}

ResolveStart(resolver, web, initialUrl) ==
    [pc |-> "loop", resolver |-> resolver, web |-> web, initialUrl |-> initialUrl,
     currentUrl |-> initialUrl,
     chain |-> IF resolver = "presell-tracker" THEN <<>> ELSE <<initialUrl>>,
     count |-> 0, fetches |-> 0, faults |-> 0]

\* the loop is left and the chain built so far is dropped
Break_DropChain(r) == [r EXCEPT !.pc = "done", !.chain = <<>>]

\* break
Break(r) == [r EXCEPT !.pc = "done"]

\* a loop that takes one turn more than its limit
Follow_OneMore(r, nextUrl, limit) ==
    [r EXCEPT !.chain = Append(@, nextUrl), !.currentUrl = nextUrl,
              !.count = @ + 1,
              !.pc = IF r.count + 1 < limit + 1 THEN "loop" ELSE "done"]

\* chain.push(nextUrl); currentUrl = nextUrl; continue, and the loop condition
Follow(r, nextUrl, limit) ==
    [r EXCEPT !.chain = Append(@, nextUrl), !.currentUrl = nextUrl,
              !.count = @ + 1,
              !.pc = IF r.count + 1 < limit THEN "loop" ELSE "done"]

\* the requests made and failed in one turn of a loop
Requested(r, fetches, faults) ==
    [r EXCEPT !.fetches = @ + fetches, !.faults = @ + faults]

\* redirect-tracker.ts, one turn of the loop of trackRedirectChain: HEAD, and GET
\* with a look for a meta refresh when HEAD threw; no URL is looked up in the chain
TrackerTurn(r, headOk, getOk, meta) ==
    LET location == LocationOf(r.web, r.currentUrl)
        nextUrl  == ResolveUrl(location, r.currentUrl)
    IN  IF headOk
        THEN IF location # NoUrl
             THEN Follow(Requested(r, 1, 0), nextUrl, MAX_REDIRECTS)
             ELSE Break(Requested(r, 1, 0))
        ELSE IF ~getOk THEN Break(Requested(r, 2, 2))
        ELSE IF location # NoUrl
             THEN Follow(Requested(r, 2, 1), nextUrl, MAX_REDIRECTS)
        ELSE IF meta # NoUrl /\ meta # r.currentUrl
             THEN Follow(Requested(r, 2, 1), meta, MAX_REDIRECTS)
             ELSE Break(Requested(r, 2, 1))

\* url-extractor, one turn of the loop of trackRedirectChain: a URL already in the
\* chain ends the loop
ExtractorTurn(r, headOk) ==
    LET location == LocationOf(r.web, r.currentUrl)
        nextUrl  == ResolveUrl(location, r.currentUrl)
    IN  IF ~headOk THEN Break(Requested(r, 1, 1))
        ELSE IF location = NoUrl THEN Break(Requested(r, 1, 0))
        ELSE IF Has(r.chain, nextUrl) THEN Break(Requested(r, 1, 0))
        ELSE Follow(Requested(r, 1, 0), nextUrl, maxRedirects)

\* presell-tracker.ts, one turn of the loop of followRedirects: the chain starts
\* empty, so the initial URL is not in it
FollowTurn(r, headOk) ==
    LET location == LocationOf(r.web, r.currentUrl)
        nextUrl  == ResolveUrl(location, r.currentUrl)
    IN  IF ~headOk THEN Break(Requested(r, 1, 1))
        ELSE IF location = NoUrl THEN Break(Requested(r, 1, 0))
        ELSE IF Has(r.chain, nextUrl) \/ nextUrl = r.currentUrl
             THEN Break(Requested(r, 1, 0))
        ELSE Follow(Requested(r, 1, 0), nextUrl, maxRedirects)

\* the resolvers that run followRedirectsWithChain, and the limit each gives it
ChainResolvers == {"follow-with-chain", "follow-to-final"}
ChainLimit(r) ==
    IF r.resolver = "follow-to-final" THEN followToFinalMax ELSE chainMaxRedirects

\* what a request can come to: it throws (the timeout included), it answers with
\* a redirect, with 200, or with another status
Responses == {"throws", "redirect", "ok", "other"}

\* the GET that followRedirectsWithChain makes in its first turn when HEAD
\* answered 200, and the look for a meta refresh in the page
ChainGet(r, get, meta, location, nextUrl) ==
    IF get = "throws" THEN Break(Requested(r, 2, 1))
    ELSE IF get = "redirect" /\ location # NoUrl /\ ~Has(r.chain, nextUrl)
         THEN Follow(Requested(r, 2, 0), nextUrl, ChainLimit(r))
    ELSE IF get = "ok" /\ meta # NoUrl /\ ~Has(r.chain, meta)
         THEN Follow(Requested(r, 2, 0), meta, ChainLimit(r))
         ELSE Break(Requested(r, 2, 0))

\* url-extractor, one turn of the loop of followRedirectsWithChain
ChainTurn(r, head, get, meta) ==
    LET location == LocationOf(r.web, r.currentUrl)
        nextUrl  == ResolveUrl(location, r.currentUrl)
    IN  IF head = "throws" THEN Break(Requested(r, 1, 1))
        ELSE IF head = "redirect" /\ location # NoUrl
             THEN IF Has(r.chain, nextUrl) THEN Break(Requested(r, 1, 0))
                  ELSE Follow(Requested(r, 1, 0), nextUrl, ChainLimit(r))
        ELSE IF r.count = 0 /\ head = "ok"
             THEN ChainGet(r, get, meta, location, nextUrl)
             ELSE Break(Requested(r, 1, 0))

\* presell-tracker.ts, trackPresellChain once a CTA URL is extracted: final_url
\* and shop_domain are set only when followRedirects returned a non-empty chain
trackPresellChain(ctaUrl, finalChain) ==
    [cta_url |-> ctaUrl,
     final_url |-> IF Len(finalChain) > 0 THEN finalChain[Len(finalChain)] ELSE NoUrl,
     shop_domain |-> IF Len(finalChain) > 0
                     THEN extractDomainFromUrl(finalChain[Len(finalChain)]) ELSE Null]

\* the webs: what each host answers; c.io is the host that may redirect onward
\* without end
Webs ==
    {web \in [Hosts -> Locations \cup {NoUrl}] :
        \A h \in Hosts : web[h] = Onward => h = S_c_io}

ResolveInit ==
    /\ CheckIdle /\ PipeIdle /\ ExtractIdle /\ KeywordsIdle /\ WorkerIdle
    /\ \E resolver \in Resolvers, web \in Webs, initialUrl \in InitialUrls :
          rr = ResolveStart(resolver, web, initialUrl)

TrackerStep ==
    /\ rr.pc = "loop" /\ rr.resolver = "redirect-tracker"
    /\ \E headOk \in BOOLEAN, getOk \in BOOLEAN, meta \in MetaRefreshUrls :
          /\ headOk => (getOk /\ meta = NoUrl)
          /\ (~getOk \/ LocationOf(rr.web, rr.currentUrl) # NoUrl) => meta = NoUrl
          /\ rr' = TrackerTurn(rr, headOk, getOk, meta)
    /\ UNCHANGED <<cin, cst, opt, run, report, net, ex, kg, wk>>

ExtractorStep ==
    /\ rr.pc = "loop" /\ rr.resolver = "url-extractor"
    /\ \E headOk \in BOOLEAN : rr' = ExtractorTurn(rr, headOk)
    /\ UNCHANGED <<cin, cst, opt, run, report, net, ex, kg, wk>>

FollowStep ==
    /\ rr.pc = "loop" /\ rr.resolver = "presell-tracker"
    /\ \E headOk \in BOOLEAN : rr' = FollowTurn(rr, headOk)
    /\ UNCHANGED <<cin, cst, opt, run, report, net, ex, kg, wk>>

ChainStep ==
    /\ rr.pc = "loop" /\ rr.resolver \in ChainResolvers
    /\ \E head \in Responses, get \in Responses, meta \in MetaRefreshUrls :
          /\ (head # "ok" \/ rr.count # 0) => (get = "other" /\ meta = NoUrl)
          /\ get # "ok" => meta = NoUrl
          /\ rr' = ChainTurn(rr, head, get, meta)
    /\ UNCHANGED <<cin, cst, opt, run, report, net, ex, kg, wk>>

ResolveNext == TrackerStep \/ ExtractorStep \/ FollowStep \/ ChainStep

SpecResolve == ResolveInit /\ [][ResolveNext]_vars

\* every request is answered or times out, so a resolver in its loop takes its
\* next turn
SpecResolveLive == SpecResolve /\ WF_vars(ResolveNext)

-----------------------------------------------------------------------------
(* extractLandingPageUrl of the URL extractor: the snapshot page is        *)
(* fetched, the pattern families are tried on its HTML, and the candidate  *)
(* found is followed to its final URL.  A page is given by what the        *)
(* patterns of each family match in it, in the order the family tries      *)
(* them.  ex = [pc, html, web, ok, url, result]: ok tells that the page    *)
(* was fetched, url is the candidate found, result the value returned      *)
(* (NoUrl for null).                                                       *)

S_query == <<"?">>
S_amp == <<"&">>
S_equals == <<"=">>
S_percent == <<"%">>
S_render_ad == <<"r","e","n","d","e","r","_","a","d">>
S_dest_url == <<"d","e","s","t","_","u","r","l">>
S_link == <<"l","i","n","k">>
S_u == <<"u">>
S_href == <<"h","r","e","f">>
S_fb_com == <<"f","b",".","c","o","m">>
S_fbcdn_net == <<"f","b","c","d","n",".","n","e","t">>
S_instagram_com == <<"i","n","s","t","a","g","r","a","m",".","c","o","m">>
S_meta_com == <<"m","e","t","a",".","c","o","m">>
S_meta_ai == <<"m","e","t","a",".","a","i">>
S_facebook_net == <<"f","a","c","e","b","o","o","k",".","n","e","t">>
S_threads_net == <<"t","h","r","e","a","d","s",".","n","e","t">>
S_www_facebook_com == S_www \o S_facebook_com

\* the part of s after the first sep, empty when sep does not occur
AfterFirst(s, sep) ==
    IF Includes(s, sep)
    THEN SubSeq(s, Len(SplitFirst(s, sep)) + Len(sep) + 1, Len(s))
    ELSE <<>>

\* the escapes of the characters that occur in the URLs of the pages
PercentTable ==
    (<<"%","3","A">> :> ":") @@ (<<"%","2","F">> :> "/") @@ (<<"%","2","5">> :> "%")

RECURSIVE IsWellFormed(_)
\* decodeURIComponent does not throw: every % starts an escape
IsWellFormed(s) ==
    \/ s = <<>>
    \/ IF Head(s) = "%"
       THEN /\ Len(s) >= 3
            /\ SubSeq(s, 1, 3) \in DOMAIN PercentTable
            /\ IsWellFormed(SubSeq(s, 4, Len(s)))
       ELSE IsWellFormed(Tail(s))

RECURSIVE PercentDecode(_)
\* one pass of percent-decoding; a % that starts no escape is kept
PercentDecode(s) ==
    IF s = <<>> THEN <<>>
    ELSE IF Head(s) = "%" /\ Len(s) >= 3 /\ SubSeq(s, 1, 3) \in DOMAIN PercentTable
         THEN <<PercentTable[SubSeq(s, 1, 3)]>> \o PercentDecode(SubSeq(s, 4, Len(s)))
         ELSE <<Head(s)>> \o PercentDecode(Tail(s))

RECURSIVE encodeURIComponent(_)
encodeURIComponent(s) ==
    IF s = <<>> THEN <<>>
    ELSE (IF \E k \in DOMAIN PercentTable : PercentTable[k] = Head(s)
          THEN CHOOSE k \in DOMAIN PercentTable : PercentTable[k] = Head(s)
          ELSE <<Head(s)>>) \o encodeURIComponent(Tail(s))

\* decodeUrl: decodeURIComponent, once more when a % is left, and the URL as it
\* was when either pass throws
decodeUrl(url) ==
    IF ~IsWellFormed(url) THEN url
    ELSE LET decoded == PercentDecode(url)
         IN  IF ~Includes(decoded, S_percent) THEN decoded
             ELSE IF IsWellFormed(decoded) THEN PercentDecode(decoded) ELSE url

\* new URL(url) for the request it names: NoUrl when it throws, as it does for
\* a relative URL
ParseUrl(url) ==
    LET lowered == ToLowerCase(url)
        rest    == IF StartsWith(lowered, S_https) THEN SubSeq(url, Len(S_https) + 1, Len(url))
                   ELSE IF StartsWith(lowered, S_http) THEN SubSeq(url, Len(S_http) + 1, Len(url))
                   ELSE <<>>
        host    == SplitFirst(SplitFirst(rest, S_slash), S_query)
        path    == SubSeq(rest, Len(host) + 1, Len(rest))
    IN  IF host = <<>> THEN NoUrl ELSE Url(host, IF path = <<>> THEN Null ELSE path)

RECURSIVE ParamValue(_, _)
\* the value of the first parameter of that name in a query string, Null for none
ParamValue(query, name) ==
    IF query = <<>> THEN Null
    ELSE LET pair == SplitFirst(query, S_amp)
         IN  IF SplitFirst(pair, S_equals) = name
             THEN PercentDecode(AfterFirst(pair, S_equals))
             ELSE ParamValue(AfterFirst(query, S_amp), name)

\* new URL(url).searchParams.get(name): the value comes percent-decoded
searchParamsGet(url, name) == ParamValue(AfterFirst(url, S_query), name)

\* a || b on strings: null and the empty string are falsy
Or(a, b) == IF a # Null THEN a ELSE b

\* the excludedDomains of isValidLandingPageUrl
landingExcludedDomains ==
    {S_facebook_com, S_fb_com, S_fbcdn_net, S_instagram_com, S_meta_com, S_meta_ai,
     S_facebook_net, S_threads_net, S_whatsapp_com}

isValidLandingPageUrl(url) ==
    /\ url # Null
    /\ ParseUrl(url) # NoUrl
    /\ ~IsListedDomain(ToLowerCase(ParseUrl(url).host), landingExcludedDomains)

\* extractUrlFromFbRedirect: the parameter u or href of the wrapper, decoded;
\* the patterns of the family match URLs that parse
extractUrlFromFbRedirect(fbUrl) ==
    LET actualUrl == Or(searchParamsGet(fbUrl, S_u), searchParamsGet(fbUrl, S_href))
    IN  IF actualUrl # Null THEN decodeUrl(actualUrl) ELSE Null

RECURSIVE extractFromFacebookRedirectLinks(_)
\* the first wrapper link whose wrapped URL is valid
extractFromFacebookRedirectLinks(matches) ==
    IF matches = <<>> THEN Null
    ELSE LET actualUrl == extractUrlFromFbRedirect(Head(matches))
         IN  IF actualUrl # Null /\ isValidLandingPageUrl(actualUrl) THEN actualUrl
             ELSE extractFromFacebookRedirectLinks(Tail(matches))

RECURSIVE FirstValidMatch(_)
\* the loop over the patterns that extractFromLinkTag, extractFromScriptTags,
\* extractFromMetaRefresh, extractFromJsRedirects and extractFromHref share: the
\* first match that is valid, decoded
FirstValidMatch(matches) ==
    IF matches = <<>> THEN Null
    ELSE IF isValidLandingPageUrl(Head(matches)) THEN decodeUrl(Head(matches))
    ELSE FirstValidMatch(Tail(matches))

RECURSIVE extractFromDataAttributes(_)
\* a match that holds render_ad stands for its parameter dest_url or link
extractFromDataAttributes(matches) ==
    IF matches = <<>> THEN Null
    ELSE LET m       == Head(matches)
             destUrl == Or(searchParamsGet(m, S_dest_url), searchParamsGet(m, S_link))
         IN  IF Includes(m, S_render_ad)
             THEN IF ParseUrl(m) # NoUrl /\ destUrl # Null /\ isValidLandingPageUrl(destUrl)
                  THEN decodeUrl(destUrl)
                  ELSE extractFromDataAttributes(Tail(matches))
             ELSE IF isValidLandingPageUrl(m) THEN decodeUrl(m)
             ELSE extractFromDataAttributes(Tail(matches))

RECURSIVE UnescapeSlashes(_)
\* url.replace(/\\\//g, '/')
UnescapeSlashes(s) ==
    IF s = <<>> THEN <<>>
    ELSE IF Len(s) >= 2 /\ s[1] = "\\" /\ s[2] = "/"
         THEN <<"/">> \o UnescapeSlashes(SubSeq(s, 3, Len(s)))
         ELSE <<Head(s)>> \o UnescapeSlashes(Tail(s))

S_pct3A == <<"%","3","A">>
S_pct2F == <<"%","2","F">>

\* the URL of a match of the JSON patterns: unescaped, and decoded once when it
\* holds an encoded colon or slash
JsonUrl(m) ==
    LET url == UnescapeSlashes(m)
    IN  IF (Includes(url, S_pct3A) \/ Includes(url, S_pct2F)) /\ IsWellFormed(url)
        THEN PercentDecode(url) ELSE url

RECURSIVE FirstValidJsonUrl(_)
\* Strategy 1 of extractFromAnyExternalUrl
FirstValidJsonUrl(matches) ==
    IF matches = <<>> THEN Null
    ELSE IF isValidLandingPageUrl(JsonUrl(Head(matches)))
         THEN decodeUrl(JsonUrl(Head(matches)))
         ELSE FirstValidJsonUrl(Tail(matches))

\* the extensions of /\.(js|css|png|jpg|gif|svg|woff|ttf|ico)(\?|$)/ at the end
\* of a URL
StaticExtensions ==
    {<<".","j","s">>, <<".","c","s","s">>, <<".","p","n","g">>, <<".","j","p","g">>,
     <<".","g","i","f">>, <<".","s","v","g">>, <<".","w","o","f","f">>,
     <<".","t","t","f">>, <<".","i","c","o">>}

IsStaticAsset(url) == \E e \in StaticExtensions : EndsWith(ToLowerCase(SplitFirst(url, S_query)), e)

\* new URL(u).pathname.length > 1
HasPath(url) ==
    LET path == IF ParseUrl(url).path = Null THEN <<>> ELSE SplitFirst(ParseUrl(url).path, S_query)
    IN  Len(path) > 1

\* Strategy 2 of extractFromAnyExternalUrl: the valid URLs that are no static
\* assets, the first with a path before the first of all
BroadScan(matches) ==
    LET urls == [i \in 1..Len(matches) |-> UnescapeSlashes(matches[i])]
        candidateUrls == SelectSeq(urls, LAMBDA u : ~IsStaticAsset(u) /\ isValidLandingPageUrl(u))
        withPath == SelectSeq(candidateUrls, HasPath)
    IN  IF candidateUrls = <<>> THEN Null
        ELSE decodeUrl(IF withPath # <<>> THEN withPath[1] ELSE candidateUrls[1])

extractFromAnyExternalUrl(jsonUrls, allUrls) ==
    Or(FirstValidJsonUrl(jsonUrls), BroadScan(allUrls))

\* the families with the anchors of the calls to action before the tags
extractUrl_HrefFirst(html) ==
    Or(extractFromFacebookRedirectLinks(html.fbLinks),
    Or(FirstValidMatch(html.hrefs),
    Or(FirstValidMatch(html.linkTag),
    Or(extractFromDataAttributes(html.dataAttrs),
    Or(FirstValidMatch(html.scripts),
    Or(FirstValidMatch(html.metaRefresh),
    Or(FirstValidMatch(html.jsRedirects),
       extractFromAnyExternalUrl(html.jsonUrls, html.allUrls))))))))

\* extractLandingPageUrl, const url = extractFromFacebookRedirectLinks(html) ||
\* extractFromLinkTag(html) || ... || extractFromAnyExternalUrl(html)
extractUrl(html) ==
    Or(extractFromFacebookRedirectLinks(html.fbLinks),
    Or(FirstValidMatch(html.linkTag),
    Or(extractFromDataAttributes(html.dataAttrs),
    Or(FirstValidMatch(html.scripts),
    Or(FirstValidMatch(html.metaRefresh),
    Or(FirstValidMatch(html.jsRedirects),
    Or(FirstValidMatch(html.hrefs),
       extractFromAnyExternalUrl(html.jsonUrls, html.allUrls))))))))

\* the URLs that the patterns match in the pages
U_a == S_https \o S_a_io \o <<"/","x">>
U_b == S_https \o S_b_io
U_fb == S_https \o S_www_facebook_com \o <<"/","p">>
U_rel == <<"/","x">>
U_js == S_https \o S_b_io \o <<"/","x",".","j","s">>
U_escaped == <<"h","t","t","p","s",":","\\","/","\\","/">> \o S_a_io \o <<"\\","/","x">>

S_l_php == S_https \o <<"l",".">> \o S_facebook_com \o <<"/","l",".","p","h","p","?","u","=">>
S_render == S_https \o S_www_facebook_com \o <<"/","a","d","s","/","a","r","c","h","i","v","e","/">> \o S_render_ad \o <<"/","?","i","d","=","1","&","d","e","s","t","_","u","r","l","=">>

\* a wrapper link of the platform around a URL
Wrapped(url) == S_l_php \o encodeURIComponent(url)

\* what the patterns of a family can match: one URL, or a URL that is not valid
\* before one that is
MatchLists == {<<>>, <<U_a>>, <<U_b>>, <<U_fb>>, <<U_rel, U_b>>, <<U_fb, U_a>>}

WrapperLists ==
    {<<>>, <<Wrapped(U_a)>>, <<Wrapped(U_fb), Wrapped(U_b)>>,
     <<Wrapped(encodeURIComponent(U_a))>>}

DataLists == MatchLists \cup {<<S_render \o encodeURIComponent(U_a)>>, <<S_render \o encodeURIComponent(U_fb), U_b>>}

JsonLists == {<<>>, <<U_escaped>>, <<U_fb, encodeURIComponent(U_b)>>}

BroadLists == {<<>>, <<U_b, U_a>>, <<U_js, U_b>>, <<U_fb>>}

EmptyHtml ==
    [fbLinks |-> <<>>, linkTag |-> <<>>, dataAttrs |-> <<>>, scripts |-> <<>>,
     metaRefresh |-> <<>>, jsRedirects |-> <<>>, hrefs |-> <<>>, jsonUrls |-> <<>>,
     allUrls |-> <<>>]

MatchesOf(field) ==
    CASE field = "fbLinks" -> WrapperLists
      [] field = "dataAttrs" -> DataLists
      [] field = "jsonUrls" -> JsonLists
      [] field = "allUrls" -> BroadLists
      [] OTHER -> MatchLists

\* the pages: the patterns of at most two families match
Htmls ==
    UNION {{[[EmptyHtml EXCEPT ![f] = a] EXCEPT ![g] = b] :
               a \in MatchesOf(f), b \in MatchesOf(g)} :
           f \in DOMAIN EmptyHtml, g \in DOMAIN EmptyHtml}

ExtractHosts == {S_a_io, S_b_io, S_www_facebook_com}

\* the webs the candidates are followed in: a.io may redirect to b.io, to the
\* platform, or onward without end, b.io may redirect to a.io
ExtractWebs ==
    {web \in [ExtractHosts -> Locations \cup {NoUrl, Url(S_www_facebook_com, S_path_x)}] :
        /\ web[S_a_io] \in {NoUrl, Url(S_b_io, S_slash), Url(S_www_facebook_com, S_path_x), Onward}
        /\ web[S_b_io] \in {NoUrl, Url(S_a_io, S_slash)}
        /\ web[S_www_facebook_com] = NoUrl}

ExtractInit ==
    /\ CheckIdle /\ PipeIdle /\ ResolverIdle /\ KeywordsIdle /\ WorkerIdle
    /\ \E html \in Htmls, web \in ExtractWebs :
          ex = [pc |-> "fetch", html |-> html, web |-> web, ok |-> FALSE,
                url |-> Null, result |-> NoUrl]

\* the page is fetched and the families are tried; null is returned when the
\* fetch throws, the response is not ok or no family finds a URL
ExtractFetch ==
    /\ ex.pc = "fetch"
    /\ \E response \in {"throws", "other", "ok"} :
          LET url == IF response = "ok" THEN extractUrl(ex.html) ELSE Null
          IN  IF url = Null
              THEN /\ ex' = [ex EXCEPT !.pc = "returned", !.ok = (response = "ok")]
                   /\ UNCHANGED rr
              ELSE /\ ex' = [ex EXCEPT !.pc = "follow", !.ok = TRUE, !.url = url]
                   /\ rr' = ResolveStart("follow-to-final", ex.web, ParseUrl(url))
    /\ UNCHANGED <<cin, cst, opt, run, report, net, kg, wk>>

\* followToFinalUrl returns the final URL of the chain, and extractLandingPageUrl
\* returns it
ExtractReturn ==
    /\ ex.pc = "follow" /\ rr.pc = "done"
    /\ ex' = [ex EXCEPT !.pc = "returned", !.result = rr.currentUrl]
    /\ UNCHANGED <<cin, cst, opt, run, report, net, rr, kg, wk>>

ExtractNext == ExtractFetch \/ ChainStep \/ ExtractReturn

SpecExtract == ExtractInit /\ [][ExtractNext]_vars

-----------------------------------------------------------------------------
(* generateKeywords of the keyword generator: the words of the texts of    *)
(* the brand's ads are counted, the frequent ones become keywords, and     *)
(* pairs of adjacent words fill the list up.  The ads come in runs: ads is *)
(* a sequence of [ad, times], an ad that occurs times times in a row.      *)
(* kg = [pc, ads, brandName, maxKeywords, keywords].                       *)

Max(a, b) == IF a > b THEN a ELSE b

\* the characters that text.replace(/[^\wäöüßÄÖÜ\s-]/g, ' ') leaves in a word
WordChars ==
    {LowerAlpha[i] : i \in 1..26} \cup {UpperAlpha[i] : i \in 1..26} \cup Digits
    \cup {"_", "-", "ä", "ö", "ü", "ß", "Ä", "Ö", "Ü"}

RECURSIVE SplitWords(_, _)
\* text.replace(/[^\wäöüßÄÖÜ\s-]/g, ' ').split(/\s+/) without the empty strings,
\* which the filter on the length drops
SplitWords(text, word) ==
    IF text = <<>> THEN (IF word = <<>> THEN <<>> ELSE <<word>>)
    ELSE IF Head(text) \in WordChars
         THEN SplitWords(Tail(text), Append(word, Head(text)))
         ELSE (IF word = <<>> THEN <<>> ELSE <<word>>) \o SplitWords(Tail(text), <<>>)

W_jetzt == <<"j","e","t","z","t">>
W_with == <<"w","i","t","h">>
W_kaufen == <<"k","a","u","f","e","n">>
W_pulver == <<"p","u","l","v","e","r">>
W_shop == <<"s","h","o","p">>

\* members of GERMAN_STOP_WORDS and ENGLISH_STOP_WORDS
StopWords == {W_jetzt, W_with}
\* members of GENERIC_AD_WORDS
GenericAdWords == {W_jetzt, W_kaufen, W_pulver, W_shop}

isStopWord(word) == word \in StopWords
isGenericAdWord(word) == word \in GenericAdWords

isBrandWord(word, brandLower, brandNormalized) ==
    \/ word = brandLower
    \/ RemoveChars(word, Separators) = brandNormalized
    \/ Includes(brandLower, word)
    \/ Includes(word, brandLower)

\* the words of a text that both extractAndScoreWords and generateCompoundKeywords
\* keep: 4 characters at least, lower-cased, no number, no digit in front, no
\* stop word, no word of the brand
KeptWords(text, brandLower, brandNormalized) ==
    LET long    == SelectSeq(SplitWords(text, <<>>), LAMBDA w : Len(w) >= 4)
        lowered == [i \in 1..Len(long) |-> ToLowerCase(long[i])]
    IN  SelectSeq(lowered, LAMBDA w : /\ w[1] \notin Digits
                                      /\ ~isStopWord(w)
                                      /\ ~isBrandWord(w, brandLower, brandNormalized))

\* m.set(k, (m.get(k) || 0) + 1), times times
AddCount(m, k, times) ==
    IF KeyIndex(m, k) = 0 THEN Append(m, [key |-> k, count |-> times])
    ELSE [m EXCEPT ![KeyIndex(m, k)].count = @ + times]

RECURSIVE CountAll(_, _, _)
CountAll(m, keys, times) ==
    IF keys = <<>> THEN m ELSE CountAll(AddCount(m, Head(keys), times), Tail(keys), times)

\* extractAndScoreWords: the kept words of a text that are no generic ad words
extractAndScoreWords(text, scores, brandLower, brandNormalized, times) ==
    CountAll(scores,
             SelectSeq(KeptWords(text, brandLower, brandNormalized),
                       LAMBDA w : ~isGenericAdWord(w)),
             times)

RECURSIVE ScoreTexts(_, _, _, _, _)
ScoreTexts(texts, scores, brandLower, brandNormalized, times) ==
    IF texts = <<>> THEN scores
    ELSE ScoreTexts(Tail(texts),
                    extractAndScoreWords(Head(texts), scores, brandLower, brandNormalized, times),
                    brandLower, brandNormalized, times)

RECURSIVE WordScores(_, _, _, _)
\* the loop of generateKeywords over the ads: bodies, titles, descriptions
WordScores(ads, scores, brandLower, brandNormalized) ==
    IF ads = <<>> THEN scores
    ELSE WordScores(Tail(ads),
                    ScoreTexts(Head(ads).ad.bodies \o Head(ads).ad.titles
                                   \o Head(ads).ad.descriptions,
                               scores, brandLower, brandNormalized, Head(ads).times),
                    brandLower, brandNormalized)

\* String.prototype.toUpperCase of one character: the sharp s becomes two
UpperChar(c) ==
    IF c = "ß" THEN <<"S", "S">>
    ELSE IF \E i \in 1..26 : LowerAlpha[i] = c
         THEN <<UpperAlpha[CHOOSE i \in 1..26 : LowerAlpha[i] = c]>>
         ELSE <<c>>

\* word.charAt(0).toUpperCase() + word.slice(1)
capitalize(word) == UpperChar(Head(word)) \o Tail(word)

\* the bigrams of the kept words of a text: none with a generic ad word, none of
\* a word with itself
BigramsOf(words) ==
    LET F[i \in 0..Max(Len(words) - 1, 0)] ==
            IF i = 0 THEN <<>>
            ELSE IF isGenericAdWord(words[i]) \/ isGenericAdWord(words[i + 1])
                    \/ words[i] = words[i + 1]
                 THEN F[i - 1]
                 ELSE Append(F[i - 1], capitalize(words[i]) \o <<" ">> \o capitalize(words[i + 1]))
    IN  F[Max(Len(words) - 1, 0)]

RECURSIVE CountBigrams(_, _, _, _, _)
CountBigrams(texts, counts, brandLower, brandNormalized, times) ==
    IF texts = <<>> THEN counts
    ELSE CountBigrams(Tail(texts),
                      CountAll(counts,
                               BigramsOf(KeptWords(Head(texts), brandLower, brandNormalized)),
                               times),
                      brandLower, brandNormalized, times)

RECURSIVE BigramCounts(_, _, _, _)
\* the loop of generateCompoundKeywords over the ads: bodies and titles
BigramCounts(ads, counts, brandLower, brandNormalized) ==
    IF ads = <<>> THEN counts
    ELSE BigramCounts(Tail(ads),
                      CountBigrams(Head(ads).ad.bodies \o Head(ads).ad.titles, counts,
                                   brandLower, brandNormalized, Head(ads).times),
                      brandLower, brandNormalized)

KeysOf(entries) == [i \in 1..Len(entries) |-> entries[i].key]

\* the bigrams seen 3 times at least, most seen first, 10 at most
generateCompoundKeywords(ads, brandLower, brandNormalized) ==
    KeysOf(Take(SortByCountDesc(SelectSeq(BigramCounts(ads, <<>>, brandLower, brandNormalized),
                                          LAMBDA e : e.count >= 3)), 10))

RECURSIVE SplitAll(_, _)
\* String.prototype.split(sep)
SplitAll(s, sep) ==
    IF Includes(s, sep) THEN <<SplitFirst(s, sep)>> \o SplitAll(AfterFirst(s, sep), sep)
    ELSE <<s>>

\* parts.every(p => finalKeywords.some(fk => fk.toLowerCase() === p))
bothPartsInSingles(keyword, finalKeywords) ==
    LET parts == SplitAll(ToLowerCase(keyword), <<" ">>)
    IN  \A i \in 1..Len(parts) :
            \E j \in 1..Len(finalKeywords) : ToLowerCase(finalKeywords[j]) = parts[i]

RECURSIVE FillWithCompounds(_, _, _)
\* the loop over the compound keywords, left when the list is full
FillWithCompounds(finalKeywords, compoundKeywords, maxKeywords) ==
    IF compoundKeywords = <<>> \/ Len(finalKeywords) >= maxKeywords THEN finalKeywords
    ELSE FillWithCompounds(
             IF ~bothPartsInSingles(Head(compoundKeywords), finalKeywords)
                /\ ~Has(finalKeywords, Head(compoundKeywords))
             THEN Append(finalKeywords, Head(compoundKeywords)) ELSE finalKeywords,
             Tail(compoundKeywords), maxKeywords)

\* ads.length
AdCount(ads) ==
    LET F[i \in 0..Len(ads)] == IF i = 0 THEN 0 ELSE F[i - 1] + ads[i].times
    IN  F[Len(ads)]

\* Math.max(3, Math.ceil(ads.length * 0.005))
minFrequency(n) == Max(3, (n * 5 + 999) \div 1000)

\* the single keywords: the words seen minFrequency times at least, most seen
\* first, maxKeywords at most; the loop that copies them adds none twice
SingleKeywords(scores, n, maxKeywords) ==
    Take(Dedup(KeysOf(Take(SortByCountDesc(SelectSeq(scores,
                               LAMBDA e : e.count >= minFrequency(n))), maxKeywords))),
         maxKeywords)

generateKeywords(ads, brandName, maxKeywords) ==
    FillWithCompounds(
        SingleKeywords(WordScores(ads, <<>>, ToLowerCase(brandName),
                                  RemoveChars(ToLowerCase(brandName), Separators)),
                       AdCount(ads), maxKeywords),
        generateCompoundKeywords(ads, ToLowerCase(brandName),
                                 RemoveChars(ToLowerCase(brandName), Separators)),
        maxKeywords)

\* the texts of the ads
T_plain == <<"K","o","l","l","a","g","e","n"," ","B","o","o","s","t","e","r">>
T_punct == <<"B","o","o","s","t","e","r",","," ","K","o","l","l","a","g","e","n","!">>
T_stop == <<"P","e","p","t","i","d","e"," ","j","e","t","z","t"," ","K","o","l","l","a","g","e","n">>
T_generic == <<"K","o","l","l","a","g","e","n"," ","k","a","u","f","e","n"," ","B","o","o","s","t","e","r">>
T_brand == <<"G","l","o","w"," ","K","o","l","l","a","g","e","n"," ","2","0","2","4"," ","n","e","u">>
T_sharp == <<"ß","e","t","a"," ","K","o","l","l","a","g","e","n">>
T_peptide == <<"P","e","p","t","i","d","e"," ","K","o","l","l","a","g","e","n"," ","P","e","p","t","i","d","e">>

AdOf(bodies, titles, descriptions) ==
    [bodies |-> bodies, titles |-> titles, descriptions |-> descriptions]

\* an ad without texts
FillerAd == AdOf(<<>>, <<>>, <<>>)

AdKinds ==
    {AdOf(<<T_plain>>, <<>>, <<>>), AdOf(<<T_punct>>, <<T_plain>>, <<>>),
     AdOf(<<T_stop>>, <<>>, <<T_plain>>), AdOf(<<T_generic>>, <<>>, <<>>),
     AdOf(<<T_brand>>, <<>>, <<>>), AdOf(<<T_sharp>>, <<>>, <<>>),
     AdOf(<<T_peptide>>, <<>>, <<>>)}

\* how often an ad is repeated in a row
FewTimes == 3
\* the number of ads without texts that raise the threshold of the single
\* keywords above 3
ManyTimes == 700

Runs == {[ad |-> a, times |-> t] : a \in AdKinds, t \in {1, FewTimes}}

\* the ads of a brand: up to two runs of ads, with or without the ads without texts
AdLists ==
    {<<>>} \cup {<<r>> : r \in Runs} \cup {<<r, q>> : r \in Runs, q \in Runs}
    \cup {<<r, q, [ad |-> FillerAd, times |-> ManyTimes]>> : r \in Runs, q \in Runs}

\* the values of maxKeywords; discoverBrand passes three times max_keywords
KeywordLimits == {1, 2, 3 * MAX_KEYWORDS}

KeywordsInit ==
    /\ CheckIdle /\ PipeIdle /\ ResolverIdle /\ ExtractIdle /\ WorkerIdle
    /\ \E ads \in AdLists, maxKeywords \in KeywordLimits :
          kg = [pc |-> "start", ads |-> ads, brandName |-> S_Glow,
                maxKeywords |-> maxKeywords, keywords |-> <<>>]

Generate ==
    /\ kg.pc = "start"
    /\ kg' = [kg EXCEPT !.pc = "done",
                        !.keywords = generateKeywords(kg.ads, kg.brandName, kg.maxKeywords)]
    /\ UNCHANGED <<cin, cst, opt, run, report, net, rr, ex, wk>>

KeywordsNext == Generate

SpecKeywords == KeywordsInit /\ [][KeywordsNext]_vars

-----------------------------------------------------------------------------
(* The worker (worker/server.ts): the jobs map, the job queue and          *)
(* processNextJob, the handlers of /api/discover and /api/batch,           *)
(* cleanupOldJobs, and the cache table domain_mapping_cache that the       *)
(* worker shares with the edge function. Times are in minutes. A job id is *)
(* the position of the job in the jobs map (a Map keeps the order of       *)
(* insertion); the ids of generateJobId are taken to be distinct.          *)

MaxJobs     == 3
LiveJobs    == 2
CacheJobs   == 2
MaxLookups  == 2
TickMinutes == 90
MaxNow      == 100
OneHour     == 60
CacheTime   == 10080

S_acme == <<"a","c","m","e">>

\* country || 'DE'
EffectiveCountry(country) == IF country = NoCountry THEN "DE" ELSE country

\* the body of a request, and the element null of a brands array
Request(brand, country, force) ==
    [json |-> "object", brand |-> brand, country |-> country, force_refresh |-> force]
JsonNull == [json |-> "null", brand |-> Null, country |-> NoCountry, force_refresh |-> FALSE]

\* the requests to /api/discover: one brand in two spellings, with and without
\* a country and force_refresh, and another brand
DiscoverRequests ==
    { Request(S_Glow, NoCountry, FALSE), Request(S_glow, "US", FALSE),
      Request(S_glow, NoCountry, TRUE), Request(S_acme, NoCountry, FALSE) }

\* the requests to the edge function
EdgeRequests == { Request(S_Glow, NoCountry, FALSE), Request(S_glow, "US", FALSE) }

\* the elements of the brands array of /api/batch
BatchElements == {Request(S_glow, NoCountry, FALSE), Request(S_acme, NoCountry, FALSE), JsonNull}
BatchBodies ==
    {<<>>} \cup {<<a>> : a \in BatchElements}
           \cup {<<a, b>> : a \in BatchElements, b \in BatchElements}

\* the answer of a handler
Response(endpoint, status, job_id, data, req) ==
    [endpoint |-> endpoint, status |-> status, job_id |-> job_id, data |-> data,
     req |-> req]

\* a new job of the handlers
NewJob(req, now) ==
    [brand |-> req.brand, country |-> req.country, status |-> "queued",
     completed_at |-> 0, result |-> NoData, present |-> TRUE]

\* the ids of the jobs in the jobs map, in the order of the map
JobIds(w) == SelectSeq([j \in 1..Len(w.jobs) |-> j], LAMBDA j : w.jobs[j].present)

\* processNextJob up to its first await, without the test of isProcessing
processNextJob_Unguarded(w) ==
    IF w.jobQueue = <<>> THEN w
    ELSE [w EXCEPT !.jobQueue = Tail(@), !.isProcessing = TRUE,
                   !.current = Head(w.jobQueue), !.pc = "discover",
                   !.jobs[Head(w.jobQueue)].status = "running"]

\* processNextJob up to its first await: the head of the queue starts running
processNextJob(w) ==
    IF w.isProcessing \/ w.jobQueue = <<>> THEN w
    ELSE IF ~w.jobs[Head(w.jobQueue)].present THEN [w EXCEPT !.jobQueue = Tail(@)]
    ELSE [w EXCEPT !.jobQueue = Tail(@), !.isProcessing = TRUE,
                   !.current = Head(w.jobQueue), !.pc = "discover",
                   !.jobs[Head(w.jobQueue)].status = "running"]

\* the end of processNextJob: isProcessing = false, then the next job of the queue
Finish(w) ==
    LET idle == [w EXCEPT !.isProcessing = FALSE, !.current = 0, !.pc = "idle"]
    IN  IF idle.jobQueue # <<>> THEN processNextJob(idle) ELSE idle

\* jobs.set(jobId, job); jobQueue.push(jobId)
Enqueue(w, req) ==
    [w EXCEPT !.jobs = Append(@, NewJob(req, w.now)),
              !.jobQueue = Append(@, Len(w.jobs) + 1)]

\* the job is queued or running for the brand, whatever the case of the name
IsLiveFor(job, brand) ==
    /\ ToLowerCase(job.brand) = ToLowerCase(brand)
    /\ job.status \in {"queued", "running"}

\* the first job of the map that is queued or running for the brand, or 0
LiveJobFor(w, brand) ==
    LET live == SelectSeq(JobIds(w), LAMBDA j : IsLiveFor(w.jobs[j], brand))
    IN  IF live = <<>> THEN 0 ELSE Head(live)

\* /api/discover after the cache: the job that is already processing is
\* answered, or a new job is created and processNextJob is called
Submit(w, req) ==
    IF LiveJobFor(w, req.brand) # 0
    THEN [w EXCEPT !.answer = Response("discover", "processing",
                                       LiveJobFor(w, req.brand), NoData, req)]
    ELSE [processNextJob(Enqueue(w, req)) EXCEPT
             !.answer = Response("discover", "processing", Len(w.jobs) + 1, NoData, req)]

\* the row of the cache table for the key, or 0
RowIndex(cache, brand, country) ==
    IF \E k \in 1..Len(cache) : cache[k].brand = brand /\ cache[k].country = country
    THEN CHOOSE k \in 1..Len(cache) : cache[k].brand = brand /\ cache[k].country = country
    ELSE 0

\* upsert with onConflict: 'brand,country'
Upsert(cache, row) ==
    IF RowIndex(cache, row.brand, row.country) = 0 THEN Append(cache, row)
    ELSE [cache EXCEPT ![RowIndex(cache, row.brand, row.country)] = row]

\* .single(): the data of the one row selected, null when there is none or
\* more than one
Single(rows) == IF Len(rows) = 1 THEN rows[1].data ELSE NoData

\* the cache lookup of the worker: by brand and expiry
WorkerLookup(w, req) ==
    Single(SelectSeq(w.cache, LAMBDA row : /\ row.brand = Trim(ToLowerCase(req.brand))
                                           /\ row.expires_at > w.now))

\* the cache lookup of the edge function: by brand, country and expiry
EdgeLookup(w, req) ==
    Single(SelectSeq(w.cache, LAMBDA row : /\ row.brand = Trim(ToLowerCase(req.brand))
                                           /\ row.country = EffectiveCountry(req.country)
                                           /\ row.expires_at > w.now))

\* the report of a run of discoverBrand for the brand and the country
ReportOf(brand, country, success) ==
    [brand |-> brand, country |-> EffectiveCountry(country), success |-> success]

\* the worker with or without a cache, followed for a number of jobs
WorkerInit ==
    /\ CheckIdle /\ PipeIdle /\ ResolverIdle /\ ExtractIdle /\ KeywordsIdle
    /\ \E supabase \in BOOLEAN :
          wk = [WorkerStopped EXCEPT !.supabase = supabase, !.limit = MaxJobs]

WorkerLiveInit ==
    /\ CheckIdle /\ PipeIdle /\ ResolverIdle /\ ExtractIdle /\ KeywordsIdle
    /\ \E supabase \in BOOLEAN :
          wk = [WorkerStopped EXCEPT !.supabase = supabase, !.limit = LiveJobs]

\* the worker and the edge function with the cache they share
CacheInit ==
    /\ CheckIdle /\ PipeIdle /\ ResolverIdle /\ ExtractIdle /\ KeywordsIdle
    /\ wk = [WorkerStopped EXCEPT !.supabase = TRUE, !.limit = CacheJobs]

\* POST /api/discover: with a cache and without force_refresh the handler
\* awaits the cache lookup, else it goes on to the jobs
ApiDiscover ==
    /\ Len(wk.jobs) + Cardinality(wk.lookups) < wk.limit
    /\ \E req \in DiscoverRequests :
          IF wk.supabase /\ ~req.force_refresh
          THEN /\ Cardinality(wk.lookups) < MaxLookups
               /\ wk' = [wk EXCEPT !.lookups = @ \cup {req}]
          ELSE wk' = Submit(wk, req)
    /\ UNCHANGED <<cin, cst, opt, run, report, net, rr, ex, kg>>

\* the cache lookup of a handler of /api/discover has returned
LookupDone ==
    /\ \E req \in wk.lookups, ok \in BOOLEAN :
          LET data == IF ok THEN WorkerLookup(wk, req) ELSE NoData
              w == [wk EXCEPT !.lookups = @ \ {req}]
          IN  IF data # NoData
              THEN wk' = [w EXCEPT !.answer = Response("discover", "cached", 0, data, req)]
              ELSE wk' = Submit(w, req)
    /\ UNCHANGED <<cin, cst, opt, run, report, net, rr, ex, kg>>

\* the jobs of the brands array up to its first element that is no object
Readable(brands) ==
    IF \E k \in 1..Len(brands) : brands[k].json = "null"
    THEN SubSeq(brands, 1, (CHOOSE k \in 1..Len(brands) :
                               /\ brands[k].json = "null"
                               /\ \A i \in 1..(k - 1) : brands[i].json # "null") - 1)
    ELSE brands

EnqueueAll(w, brands) ==
    LET F[i \in 0..Len(brands)] == IF i = 0 THEN w ELSE Enqueue(F[i - 1], brands[i])
    IN  F[Len(brands)]

\* POST /api/batch: a job for every element of brands, then processNextJob;
\* reading brandReq.brand of an element null throws and ends the handler
ApiBatch ==
    /\ \E brands \in BatchBodies :
          /\ Len(wk.jobs) + Cardinality(wk.lookups) + Len(brands) <= wk.limit
          /\ IF brands = <<>>
             THEN wk' = [wk EXCEPT !.answer = Response("batch", "error", 0, NoData, JsonNull)]
             ELSE IF Readable(brands) # brands
             THEN wk' = [EnqueueAll(wk, Readable(brands)) EXCEPT
                            !.answer = Response("batch", "error", 0, NoData, JsonNull)]
             ELSE wk' = [processNextJob(EnqueueAll(wk, brands)) EXCEPT
                            !.answer = Response("batch", "queued", Len(wk.jobs) + 1, NoData, JsonNull)]
    /\ UNCHANGED <<cin, cst, opt, run, report, net, rr, ex, kg>>

\* discoverBrand returns its report: the job is completed; a successful report
\* is stored in the cache before the job ends
DiscoverReturns ==
    /\ wk.pc = "discover"
    /\ \E success \in BOOLEAN :
          LET job == wk.jobs[wk.current]
              done == [wk EXCEPT !.jobs[wk.current].status = "completed",
                                 !.jobs[wk.current].completed_at = wk.now,
                                 !.jobs[wk.current].result =
                                     ReportOf(job.brand, job.country, success)]
          IN  wk' = IF wk.supabase /\ success THEN [done EXCEPT !.pc = "store"]
                    ELSE Finish(done)
    /\ UNCHANGED <<cin, cst, opt, run, report, net, rr, ex, kg>>

\* discoverBrand throws: the job ends in error
DiscoverThrows ==
    /\ wk.pc = "discover"
    /\ wk' = Finish([wk EXCEPT !.jobs[wk.current].status = "error",
                               !.jobs[wk.current].completed_at = wk.now])
    /\ UNCHANGED <<cin, cst, opt, run, report, net, rr, ex, kg>>

\* the row storeInCache writes: the brand in lower case and the country 'DE'
WorkerRow(job, now) ==
    [brand |-> Trim(ToLowerCase(job.brand)), country |-> "DE", data |-> job.result,
     expires_at |-> now + CacheTime]

\* storeInCache has returned, the row written or the error caught
StoreDone ==
    /\ wk.pc = "store"
    /\ \E ok \in BOOLEAN :
          wk' = Finish([wk EXCEPT !.cache = IF ok
                                            THEN Upsert(@, WorkerRow(wk.jobs[wk.current], wk.now))
                                            ELSE @])
    /\ UNCHANGED <<cin, cst, opt, run, report, net, rr, ex, kg>>

\* every job, whatever its status, without a time of completion in the last hour
Expired_AnyStatus(job, now) == job.completed_at < now - OneHour

\* the jobs cleanupOldJobs deletes: completed or failed more than an hour ago
Expired(job, now) ==
    /\ job.status \in {"completed", "error"}
    /\ job.completed_at # 0
    /\ job.completed_at < now - OneHour

cleanupOldJobs ==
    /\ wk' = [wk EXCEPT !.jobs = [j \in 1..Len(wk.jobs) |->
                 IF wk.jobs[j].present /\ Expired(wk.jobs[j], wk.now)
                 THEN [wk.jobs[j] EXCEPT !.present = FALSE] ELSE wk.jobs[j]]]
    /\ UNCHANGED <<cin, cst, opt, run, report, net, rr, ex, kg>>

\* time passes
Tick ==
    /\ wk.now + TickMinutes <= MaxNow
    /\ wk' = [wk EXCEPT !.now = @ + TickMinutes]
    /\ UNCHANGED <<cin, cst, opt, run, report, net, rr, ex, kg>>

\* the row the edge function writes: the brand in lower case and the country
\* of the request
EdgeRow(req, data, now) ==
    [brand |-> Trim(ToLowerCase(req.brand)), country |-> EffectiveCountry(req.country),
     data |-> data, expires_at |-> now + CacheTime]

\* POST to the edge function in direct execution: a cached report is
\* answered, else discoverBrand runs and a successful report is stored
EdgeServe ==
    /\ \E req \in EdgeRequests, success \in BOOLEAN :
          LET cached == IF req.force_refresh THEN NoData ELSE EdgeLookup(wk, req)
              result == ReportOf(req.brand, req.country, success)
          IN  IF cached # NoData
              THEN wk' = [wk EXCEPT !.answer = Response("edge", "cached", 0, cached, req)]
              ELSE wk' = [wk EXCEPT !.cache = IF success
                                              THEN Upsert(@, EdgeRow(req, result, wk.now))
                                              ELSE @,
                                    !.answer = Response("edge", "result", 0, result, req)]
    /\ UNCHANGED <<cin, cst, opt, run, report, net, rr, ex, kg>>

WorkerNext ==
    \/ ApiDiscover \/ LookupDone \/ ApiBatch
    \/ DiscoverReturns \/ DiscoverThrows \/ StoreDone
    \/ cleanupOldJobs \/ Tick

SpecWorker == WorkerInit /\ [][WorkerNext]_vars

\* every awaited call of the worker settles: discoverBrand returns or throws,
\* and the calls to the cache return
SpecWorkerLive ==
    /\ WorkerLiveInit /\ [][WorkerNext]_vars
    /\ WF_vars(DiscoverReturns \/ DiscoverThrows)
    /\ WF_vars(StoreDone)
    /\ WF_vars(LookupDone)

CacheNext == WorkerNext \/ EdgeServe

SpecCache == CacheInit /\ [][CacheNext]_vars

-----------------------------------------------------------------------------
(* Claims about checkDomainForBrand, checked under SpecCheck               *)

CascadeOrder ==
    <<"direct", "redirect", "vendor", "content", "presell", "landing", "dual", "render">>

StepIndex(step) == CHOOSE i \in 1..Len(CascadeOrder) : CascadeOrder[i] = step

\* the kinds and confidences a cascade step can put on the result
StepOutcomes(step) ==
    CASE step = "direct"   -> {<<"direct", 100>>}
      [] step = "redirect" -> {<<"redirect", 90>>}
      [] step = "vendor"   -> {"shopify_vendor"} \X {95, 85, 80}
      [] step = "content"  -> {<<"content_link", 75>>, <<"content_match", 60>>}
      [] step = "presell"  -> {<<"presell_cta", 85>>} \cup ({"checkout_match"} \X {95, 85, 80})
      [] step = "landing"  -> {<<"redirect", 85>>, <<"content_link", 80>>,
                               <<"content_link", 75>>, <<"content_match", 65>>}
      [] step = "dual"     -> {<<"content_link", 80>>}
      [] step = "render"   -> {<<"presell_cta", 85>>, <<"content_link", 80>>,
                               <<"content_match", 70>>}

\* the network calls a cascade step can make
StepCalls(step) ==
    CASE step = "redirect" -> {"fetch_home"}
      [] step = "vendor"   -> {"products_json"}
      [] step = "presell"  -> {"presell_chain", "products_json"}
      [] step = "landing"  -> {"fetch_landing"}
      [] step = "render"   -> {"render", "fetch_cta"}
      [] OTHER             -> {}

IsDirect(in) ==
    in.brandInfo.brand_domain # Null /\ ToLowerCase(in.domain) = BrandDomainOf(in)

\* C2: the cascade steps are evaluated in the fixed order direct, redirect, vendor,
\* content, presell CTA, ad landing URL, dual-domain ad, rendered page; the step that
\* triggers is the last one evaluated and fixes match_type and confidence, the call
\* is over once the result is a match, every network call made belongs to a step
\* evaluated, and a domain equal to the brand domain yields 'direct' at 1.0 with no
\* network call at all, whatever later checks it would also satisfy.
C2_CascadeShortCircuit ==
    /\ \A i, j \in 1..Len(cst.log) :
          i < j => StepIndex(cst.log[i]) < StepIndex(cst.log[j])
    /\ cst.result.is_match =>
          /\ cst.pc = "done"
          /\ cst.log # <<>>
          /\ <<cst.result.match_type, cst.result.confidence>>
                \in StepOutcomes(cst.log[Len(cst.log)])
    /\ \A k \in 1..Len(cst.net) :
          \E i \in 1..Len(cst.log) : cst.net[k] \in StepCalls(cst.log[i])
    /\ (cst.pc \notin {"6a", "idle"} /\ IsDirect(cin)) =>
          /\ cst.pc = "done"
          /\ cst.result.match_type = "direct" /\ cst.result.confidence = 100
          /\ cst.log = <<"direct">> /\ cst.net = <<>>

\* a direct match on a domain whose harvested landing URLs would also match in 6f
C2_Witness ==
    /\ cst.pc = "done" /\ IsDirect(cin)
    /\ cst.result.match_type = "direct"
    /\ cin.opts.domainFullUrls # <<>>
    /\ LandingUrlLoop(cin, CheckStart(cin.domain), cin.opts.domainFullUrls).result.is_match

\* C3: after the homepage fetch of the redirect step has failed, checkDomainForBrand
\* still evaluates the presell CTA step before it returns match_type 'none'.
C3_FetchFailureContinues ==
    (/\ cst.pc = "done"
     /\ Has(cst.net, "fetch_home") /\ ~cin.site.homeOk
     /\ cst.result.match_type = "none")
        => Has(cst.log, "presell")

\* the tier a vendor reaches against the brand name: 95 equal but for case, 85 equal
\* once the separators are removed, 80 one contains the other, 0 none
TierOf(vendor, brandName) ==
    LET v == ToLowerCase(Trim(vendor))
        b == ToLowerCase(Trim(brandName))
    IN  IF v = b THEN 95
        ELSE IF RemoveChars(v, Separators) = RemoveChars(b, Separators) THEN 85
        ELSE IF Includes(v, b) \/ Includes(b, v) THEN 80
        ELSE 0

\* the highest tier over all the vendors listed, 0 when the listing failed
BestTier(products, brandName) ==
    IF ~products.ok \/ products.vendors = <<>> THEN 0
    ELSE CHOOSE t \in {TierOf(products.vendors[i], brandName) :
                          i \in 1..Len(products.vendors)} :
             \A i \in 1..Len(products.vendors) : TierOf(products.vendors[i], brandName) <= t

\* the vendor check of 6c has been made and answered
VendorChecked == VendorCheckMade(cin) /\ Has(cst.log, "vendor")

\* C12: shopifyStoreHasVendor returns the highest tier over all the vendors listed,
\* 0.95 exact, else 0.85 normalized, else 0.80 containment, else not found, whatever
\* the order of the vendors: after the vendor check of 6c the result is
\* shopify_vendor at that tier, or no vendor match when no vendor reaches a tier.
C12_HighestTierWins ==
    VendorChecked =>
        LET best == BestTier(cin.site.products, cin.brandInfo.vendor_name)
        IN  IF best = 0 THEN cst.result.match_type # "shopify_vendor"
            ELSE /\ cst.result.match_type = "shopify_vendor"
                 /\ cst.result.confidence = best

\* C13: a store whose listing has the vendor 'Glow GmbH' (the brand name followed by
\* a legal form) and no other vendor related to the brand 'Glow' is a shopify_vendor
\* match of confidence 0.85.
C13_LegalFormVendorIs85 ==
    (/\ VendorChecked
     /\ cin.brandInfo.vendor_name = S_Glow
     /\ cin.site.products.ok /\ Has(cin.site.products.vendors, S_Glow_GmbH)
     /\ \A i \in 1..Len(cin.site.products.vendors) :
            \/ cin.site.products.vendors[i] = S_Glow_GmbH
            \/ TierOf(cin.site.products.vendors[i], S_Glow) = 0)
        => /\ cst.result.match_type = "shopify_vendor"
           /\ cst.result.confidence = 85

\* a harvested landing URL of the candidate whose path holds a brand alias
AliasInLandingPath ==
    \E i \in 1..Len(cin.opts.domainFullUrls) :
        /\ cin.opts.domainFullUrls[i].url.host = ToLowerCase(cin.domain)
        /\ FirstAliasIn(cin.brandInfo.brand_aliases,
                        ToLowerCase(cin.opts.domainFullUrls[i].url.path)) # Null

\* C14: the homepage answers without redirect, vendor or brand text and no presell
\* CTA is found; a known landing URL has a brand alias in its path and the landing
\* page mentions the alias (not the brand domain): the result is content_match at
\* confidence 0.65.
C14_LandingMentionIs65 ==
    (/\ cst.pc = "done" /\ ~IsDirect(cin) /\ cin.brandInfo.brand_domain # Null
     /\ cin.site.homeOk /\ cin.site.finalHost = cin.domain
     /\ cin.site.html = Html_plain
     /\ cin.site.presellHome = NoUrl /\ cin.site.presellLanding = NoUrl
     /\ AliasInLandingPath
     /\ cin.site.landingOk /\ cin.site.landingHtml = Html_alias)
        => /\ cst.result.match_type = "content_match"
           /\ cst.result.confidence = 65

\* the host the homepage fetch ended on equals the brand domain or contains a brand
\* alias that has at least 3 characters once its separators are removed
EndsOnBrandHost ==
    LET host == ToLowerCase(cin.site.finalHost)
    IN  \/ host = BrandDomainOf(cin)
        \/ \E i \in 1..Len(cin.brandInfo.brand_aliases) :
              /\ Len(RemoveChars(cin.brandInfo.brand_aliases[i], Separators)) >= 3
              /\ Includes(host, RemoveChars(cin.brandInfo.brand_aliases[i], Separators))

SecondRun(in) == checkDomainForBrand(in.domain, in.brandInfo, in.opts, in.site).result

C19_ResultConsistent ==
    cst.pc = "done" =>
        /\ (~cst.result.is_match) <=> (cst.result.match_type = "none")
        /\ (cst.result.match_type = "none") <=> (cst.result.confidence = 0)
        /\ cst.result.is_match => (cst.result.confidence > 0 /\ cst.result.confidence <= 100)
        /\ cst.result.match_type \in MatchTypes \cup {"none"}

\* a checkout match, whose confidence is the one the vendor check returned
C19_Witness ==
    /\ cst.pc = "done" /\ cst.result.is_match
    /\ cst.result.match_type = "checkout_match" /\ cst.result.confidence = 80

-----------------------------------------------------------------------------
(* Claims about discoverBrand, checked under Spec                          *)

\* the checks of the run that are matches of at least MIN_CONFIDENCE
VerifiedChecks == SelectSeq(run.checks, LAMBDA c : c.is_match /\ c.confidence >= MIN_CONFIDENCE)

\* a domain of the report is backed by a verified check of that domain
BackedDomain(d) == \E i \in 1..Len(VerifiedChecks) : VerifiedChecks[i].domain = d

\* a page of the report is backed by a verified check of a domain it advertises
BackedPage(pageId) == \E i \in 1..Len(VerifiedChecks) : Has(VerifiedChecks[i].page_ids, pageId)

\* the domains of the four domain lists of the report
ReportDomains ==
    report.domains.presell \o report.domains.redirect
        \o report.domains.final_shop \o report.domains.all

\* C1: in every report discoverBrand returns, each page in pages.third_party and
\* each domain in domains.presell, domains.redirect, domains.final_shop and
\* domains.all other than the brand's own domain is backed by a checkDomainForBrand
\* result of this run with is_match = true and confidence >= 0.70; the brand's own
\* domain stands in final_shop and all without any check.
C1_ReportBackedByChecks ==
    (report.returned /\ report.success) =>
        /\ \A i \in 1..Len(ReportDomains) :
              ReportDomains[i] # report.brand_domain => BackedDomain(ReportDomains[i])
        /\ \A i \in 1..Len(report.pages.third_party) :
              BackedPage(report.pages.third_party[i].page_id)
        /\ Has(report.domains.final_shop, report.brand_domain)
        /\ Has(report.domains.all, report.brand_domain)
        /\ ~BackedDomain(report.brand_domain)

\* a report with a verified presell domain and third-party page next to a match
\* below the threshold that was left out
C1_Witness ==
    /\ report.returned /\ report.success
    /\ report.domains.presell # <<>> /\ report.pages.third_party # <<>>
    /\ \E i \in 1..Len(run.matchedDomains) :
          /\ run.matchedDomains[i].confidence < MIN_CONFIDENCE
          /\ ~Has(report.domains.all, run.matchedDomains[i].domain)

\* C1 as stated: every domain of the four lists, the brand's own included, is
\* backed by a matching check of at least 0.70
C1_EveryEntryBacked ==
    (report.returned /\ report.success) =>
        /\ \A i \in 1..Len(ReportDomains) : BackedDomain(ReportDomains[i])
        /\ \A i \in 1..Len(report.pages.third_party) :
              BackedPage(report.pages.third_party[i].page_id)

\* C4: when the deadline made discoverBrand skip or cut short a stage, the report
\* still has success = true and no error, and every match of at least 0.70 found
\* in the batches that were completed is in the report.
C4_DeadlineDegrades ==
    (report.returned /\ run.skipped # <<>>) =>
        /\ report.success /\ report.error = Null
        /\ \A i \in 1..Len(VerifiedChecks) : Has(report.domains.all, VerifiedChecks[i].domain)
        /\ report.scan_stats.matches_found = Len(VerifiedChecks)

\* the batch loop was stopped by the deadline and the matches of the batch before
\* are in the report
C4_Witness ==
    /\ report.returned /\ report.success
    /\ Has(run.skipped, "domain_checks_rest")
    /\ VerifiedChecks # <<>>
    /\ Has(report.domains.all, VerifiedChecks[1].domain)

\* C4 as stated: every match of the completed batches, whatever its confidence
C4_EveryMatchPresent ==
    (report.returned /\ run.skipped # <<>>) =>
        /\ report.success
        /\ \A i \in 1..Len(run.checks) :
              run.checks[i].is_match => Has(report.domains.all, run.checks[i].domain)

\* C5: scan_stats.unique_domains_checked is the number of candidate domains on which
\* checkDomainForBrand was run, and is smaller than the number of candidates when the
\* deadline stopped Step 6 early.
C5_CheckedCountReported ==
    (report.returned /\ report.success) =>
        /\ report.scan_stats.unique_domains_checked = run.checkedCount
        /\ Has(run.skipped, "domain_checks_rest") =>
              report.scan_stats.unique_domains_checked < Len(run.admitted)

\* C6: a failed ad-source search counts as zero results; the only report with
\* success = false is the one of the brand-domain resolution.
C6_SearchFailureIsZeroResults ==
    (report.returned /\ ~report.success) =>
        StartsWith(report.error, S_Could_not_find_brand_domain)

\* C7: when the brand search has answered and its ads name no domain, the next step
\* returns success = false with an error beginning 'Could not find brand domain'
\* without any network call, and nothing runs after a return.
C7_NoBrandDomainEndsRun ==
    [][/\ run.pc # "returned"
       /\ (run.pc = "findBrand" /\ TopCaptionDomain(run.brandAds) = Null) =>
             /\ run'.pc = "returned"
             /\ report'.returned /\ ~report'.success
             /\ StartsWith(report'.error, S_Could_not_find_brand_domain)
             /\ net' = <<"search_brand">>
             /\ run'.allKeywords = <<>> /\ run'.allAds = <<>> /\ run'.checks = <<>>]_vars

\* the brand search found an ad, but the ad names no domain
C7_Witness ==
    /\ run.pc = "returned" /\ run.brandAds # <<>>
    /\ ~report.success /\ StartsWith(report.error, S_Could_not_find_brand_domain)
    /\ net = <<"search_brand">>

\* C8: discoverBrand makes no network call for an empty brand name.
C8_EmptyBrandRejected == opt.brandName = Null => net = <<>>

\* the deadline buffers of discoverBrand
DeadlineBuffers == {40000, 35000, 20000, 15000, 10000, 3000}

\* the candidates max_domains_to_check admits: all of them for 0, else the first
\* max_domains_to_check (20 when undefined)
AdmittedCount ==
    IF opt.options.max_domains_to_check = 0 THEN Len(run.domains)
    ELSE Min(Len(run.domains), OrDefault(opt.options.max_domains_to_check, 20))

\* C9: with timeout_ms = 0 pastDeadline is false for every buffer at every time, no
\* stage is skipped, no batch loop stops early, and every candidate domain admitted
\* by max_domains_to_check has been verified when the report is built.
C9_ZeroTimeoutUnbounded ==
    opt.options.timeout_ms = 0 =>
        /\ \A b \in DeadlineBuffers : ~pastDeadline(opt.options, run.now, b)
        /\ run.skipped = <<>>
        /\ run.pc \in {"enrich", "check", "step7"} \/ (report.returned /\ report.success) =>
              /\ Len(run.admitted) = AdmittedCount
              /\ run.thirdPartyDomains = run.admitted
              /\ Len(run.enrich) = Min(Len(run.admitted), maxEnrich)
        /\ run.pc = "step7" \/ (report.returned /\ report.success) =>
              /\ run.checkedCount = Len(run.admitted)
              /\ run.ei >= Len(run.enrich)
              /\ \A i \in 1..Len(run.admitted) : run.checks[i].domain = run.admitted[i]

\* an unbounded run that lasted longer than the default deadline, was cut to six
\* candidates by max_domains_to_check and verified all six
C9_Witness ==
    /\ opt.options.timeout_ms = 0 /\ opt.options.max_domains_to_check = 6
    /\ report.returned /\ report.success
    /\ run.now > DEFAULT_TIMEOUT_MS
    /\ Len(run.domains) > 6 /\ run.checkedCount = 6

-----------------------------------------------------------------------------
(* Claims about the redirect resolvers, checked under SpecResolve          *)

\* the web is the cycle a.io -> b.io -> a.io, followed from a.io
CycleAB ==
    /\ rr.web[S_a_io] = Url(S_b_io, S_slash)
    /\ rr.web[S_b_io] = Url(S_a_io, S_slash)
    /\ rr.initialUrl = Url(S_a_io, S_slash)

\* C10: on the cycle A -> B -> A, with no request failing, each of the three
\* resolvers ends after at most 3 requests and its chain is [A, B], no URL twice.
C10_CycleEndsAtAB ==
    (rr.pc = "done" /\ CycleAB /\ rr.faults = 0) =>
        /\ rr.fetches <= 3
        /\ rr.chain = <<Url(S_a_io, S_slash), Url(S_b_io, S_slash)>>

\* the hop of this step ended on a failed request: HEAD threw in the url-extractor,
\* HEAD and the GET that retries it both threw in the redirect tracker
HopFailed ==
    rr'.faults - rr.faults = (IF rr.resolver = "redirect-tracker" THEN 2 ELSE 1)

\* C11: when the request of a hop fails, trackRedirectChain (redirect-tracker and
\* url-extractor) does not throw but ends and returns the chain accumulated up to
\* that hop, which starts with the initial URL, with final_url the last URL of the
\* chain; a failure of the very first request returns the chain [initialUrl].
C11_FailureReturnsChain ==
    [][(rr.resolver \in {"redirect-tracker", "url-extractor"} /\ HopFailed) =>
          /\ rr'.pc = "done"
          /\ rr'.chain = rr.chain
          /\ rr'.chain[1] = rr.initialUrl
          /\ rr'.currentUrl = rr'.chain[Len(rr'.chain)]
          /\ rr.count = 0 => (rr'.chain = <<rr.initialUrl>> /\ rr'.currentUrl = rr.initialUrl)]_vars

\* the url-extractor followed two redirects and its third request failed
C11_Witness ==
    /\ rr.pc = "done" /\ rr.resolver = "url-extractor"
    /\ rr.faults = 1 /\ rr.fetches = 3
    /\ Len(rr.chain) = 3 /\ rr.currentUrl = rr.chain[3]

-----------------------------------------------------------------------------
(* Claims about the report, checked under Spec                             *)

\* the surfaced matches that name a page
MatchesOfPage(pageId) ==
    {k \in 1..Len(VerifiedChecks) : Has(VerifiedChecks[k].page_ids, pageId)}

\* C17: in pages.third_party each page id occurs once at most; the confidence of a
\* page is the maximum confidence over the surfaced matches whose page_ids contain
\* it, its connection_type is the match_type of a match attaining that maximum, and
\* no official page id of the brand is in the list.
C17_PagesDeduplicatedByMax ==
    (report.returned /\ report.success) =>
        LET pages == report.pages.third_party
        IN  /\ \A i, j \in 1..Len(pages) : pages[i].page_id = pages[j].page_id => i = j
            /\ \A i \in 1..Len(pages) :
                  /\ MatchesOfPage(pages[i].page_id) # {}
                  /\ \A k \in MatchesOfPage(pages[i].page_id) :
                        VerifiedChecks[k].confidence <= pages[i].confidence
                  /\ \E k \in MatchesOfPage(pages[i].page_id) :
                        /\ VerifiedChecks[k].confidence = pages[i].confidence
                        /\ VerifiedChecks[k].match_type = pages[i].connection_type
                  /\ ~Has(run.brandInfo.official_page_ids, pages[i].page_id)

\* a page named by two surfaced matches of different confidence, the higher one
\* first, next to a match that names an official page
C17_Witness ==
    /\ report.returned /\ report.success
    /\ \E i \in 1..Len(report.pages.third_party) :
          \E k, l \in MatchesOfPage(report.pages.third_party[i].page_id) :
              k < l /\ VerifiedChecks[k].confidence > VerifiedChecks[l].confidence
    /\ \E k \in 1..Len(VerifiedChecks) :
          \E n \in 1..Len(VerifiedChecks[k].page_ids) :
              Has(run.brandInfo.official_page_ids, VerifiedChecks[k].page_ids[n])

\* the domains the captions of the brand's ads name, in order
BrandCaptionDomains ==
    SelectSeq(CaptionDomains(run.brandAds), LAMBDA d : d # Null)

\* the number of captions of the brand's ads that name a domain
Occurrences(d) ==
    Cardinality({i \in 1..Len(BrandCaptionDomains) : BrandCaptionDomains[i] = d})

\* C18: when findBrandDomain has run on ads with caption domains, brand_domain is
\* lower-case, is named by a caption and by at least as many captions as any other
\* domain, and brand_aliases holds the domain without its TLD when that has at
\* least 3 characters.
C18_PluralityVote ==
    (run.pc = "base" /\ BrandCaptionDomains # <<>>) =>
        /\ run.brandInfo.brand_domain = ToLowerCase(run.brandInfo.brand_domain)
        /\ Has(BrandCaptionDomains, run.brandInfo.brand_domain)
        /\ \A i \in 1..Len(BrandCaptionDomains) :
              Occurrences(BrandCaptionDomains[i]) <= Occurrences(run.brandInfo.brand_domain)
        /\ Len(StripTld(run.brandInfo.brand_domain)) >= 3 =>
              Has(run.brandInfo.brand_aliases, StripTld(run.brandInfo.brand_domain))

\* a.io named first and once, GLOW-SHOP.de and glow-Shop.de after it: the brand
\* domain is glow-shop.de and glow-shop is an alias
C18_Witness ==
    /\ run.pc = "base"
    /\ BrandCaptionDomains[1] = S_a_io
    /\ run.brandInfo.brand_domain = ToLowerCase(S_GLOW_SHOP_de)
    /\ Occurrences(run.brandInfo.brand_domain) = 2
    /\ Has(run.brandInfo.brand_aliases, S_glow_shop)

-----------------------------------------------------------------------------
(* Claims about trackPresellChain, checked under SpecResolve               *)

\* C20: when trackPresellChain has extracted a CTA URL and followed it, final_url is
\* not null and shop_domain is the host of the last URL reached from the CTA URL,
\* which is the CTA URL itself when it answers without a redirect.
C20_CtaFinalDestination ==
    (rr.pc = "done" /\ rr.resolver = "presell-tracker") =>
        /\ trackPresellChain(rr.initialUrl, rr.chain).final_url # NoUrl
        /\ trackPresellChain(rr.initialUrl, rr.chain).shop_domain
              = extractDomainFromUrl(rr.currentUrl)

-----------------------------------------------------------------------------
(* Claims about the order of verification, checked under Spec              *)

\* the domains whose check was collected, in the order of collection
VerifiedDomains == [k \in 1..Len(run.checks) |-> run.checks[k].domain]

\* candidate a is sorted before candidate b: a priority domain before one that is
\* not, and among equals the one with more ads
SortedBefore(a, b) ==
    \/ Has(run.priorityDomains, ToLowerCase(a.key)) /\ ~Has(run.priorityDomains, ToLowerCase(b.key))
    \/ /\ Has(run.priorityDomains, ToLowerCase(a.key)) <=> Has(run.priorityDomains, ToLowerCase(b.key))
       /\ a.count > b.count

\* C21: once the candidates are sorted, the verified domains are a prefix of the
\* sorted candidate list (priority first, then ad count descending), and no domain
\* is verified while a domain sorted before it is left unverified
C21_VerifiedIsSortedPrefix ==
    run.pc \in {"enrich", "check", "step7", "returned"} =>
        /\ Len(VerifiedDomains) <= Len(run.domains)
        /\ VerifiedDomains =
               Take(Keys(SortCandidates(run.domains, run.priorityDomains)),
                    Len(VerifiedDomains))
        /\ \A a, b \in 1..Len(run.domains) :
               (Has(VerifiedDomains, run.domains[b].key)
                /\ SortedBefore(run.domains[a], run.domains[b]))
               => Has(VerifiedDomains, run.domains[a].key)

\* the deadline has cut the list after a first batch, and a verified priority
\* domain has fewer ads than a domain that was left unverified
C21_Witness ==
    /\ run.pc = "returned"
    /\ Has(run.skipped, "domain_checks_rest")
    /\ \E a, b \in 1..Len(run.domains) :
          /\ Has(VerifiedDomains, run.domains[a].key)
          /\ ~Has(VerifiedDomains, run.domains[b].key)
          /\ Has(run.priorityDomains, run.domains[a].key)
          /\ run.domains[a].count < run.domains[b].count

-----------------------------------------------------------------------------
(* Claims about the batches of Steps 5e and 6, checked under SpecBatch     *)

\* the state the items of a batch share with each other and with discoverBrand
SharedState(r) == <<r.domainFullUrls, r.matchedDomains, r.detectionMethods, r.enriched>>

\* C22: while a batch of Step 5e or Step 6 is under Promise.all (some item has
\* not resolved), no step writes to domainFullUrls, matchedDomains,
\* detectionMethods or the enriched counter; they change only in the steps of
\* discoverBrand itself, when no item is in flight.
C22_ItemsWriteNothingShared ==
    [][run.inflight # {} => SharedState(run') = SharedState(run)]_vars

\* the same for the checks of Step 6 alone: a check returns its result and
\* discoverBrand collects the results when all checks of the batch have resolved
CheckItemsWriteNothingShared ==
    [][(run.inflight # {} /\ run.pc = "checking") => SharedState(run') = SharedState(run)]_vars

-----------------------------------------------------------------------------
(* Claims about the candidate domains, checked under Spec                  *)

\* the candidate domains extractUniqueDomains has returned to Step 5
CandidateDomains == {run.domains[k].key : k \in 1..Len(run.domains)}

\* C23: no candidate domain of extractUniqueDomains is the brand domain, the
\* brand's myshopify domain, or a platform domain or a subdomain of one.
C23_NoOwnOrPlatformCandidate ==
    \A d \in CandidateDomains :
        /\ d # ToLowerCase(run.brandInfo.brand_domain)
        /\ (run.brandInfo.shopify_store # Null
               => d # run.brandInfo.shopify_store \o S_myshopify)
        /\ ~isPlatformDomain(d)

-----------------------------------------------------------------------------
(* Claims about the priority candidates, checked under Spec                *)

\* the check of a domain as checkDomainForBrand returns it for the ads and the
\* landing URLs given, with the pages and the ad count of the domain
CheckWith(domain, fullUrls) ==
    WithPages(checkDomainForBrand(domain, run.brandInfo,
                  [use_headless |-> domainCheckHeadless, scrapingbee_key |-> opt.options.scrapingbee_key,
                   domainAds |-> DomainAds(run.domainToAds, ToLowerCase(domain)),
                   domainFullUrls |-> UrlsOf(fullUrls, ToLowerCase(domain))],
                  WorldSite(domain)),
              run.domains[KeyIndex(run.domains, domain)]).result

\* a priority candidate: a domain of Step 2b, 5b or 5c
IsPriority(d) == Has(run.priorityDomains, ToLowerCase(d))

CaptionFullUrls ==
    extractUniqueDomains(CombineAds(run.brandAds, run.allAds), run.brandInfo).domainFullUrls

\* the domains Step 5e would enrich if no domain were a priority candidate
EnrichedWithoutPriority ==
    Take(Keys(LimitCandidates(SortCandidates(run.domains, <<>>),
                              opt.options.max_domains_to_check)), maxEnrich)

-----------------------------------------------------------------------------
(* Claims about the length of the redirect chains, checked under           *)
(* SpecResolveLive                                                         *)

\* the number of hops a resolver follows at most: the limit of each of the loops
maxHops == MAX_REDIRECTS

\* the URLs of the chain are pairwise distinct
PairwiseDistinct(chain) ==
    \A i, j \in 1..Len(chain) : i # j => chain[i] # chain[j]

-----------------------------------------------------------------------------
(* Claims about extractLandingPageUrl, checked under SpecExtract            *)

\* the candidate of each pattern family, in the order redirect-wrapper links,
\* canonical/og tags, data attributes, inline-script JSON fields, meta-refresh,
\* JS-redirect idioms, CTA anchors, any-URL fallback
FamilyCandidates(html) ==
    <<extractFromFacebookRedirectLinks(html.fbLinks), FirstValidMatch(html.linkTag),
      extractFromDataAttributes(html.dataAttrs), FirstValidMatch(html.scripts),
      FirstValidMatch(html.metaRefresh), FirstValidMatch(html.jsRedirects),
      FirstValidMatch(html.hrefs),
      extractFromAnyExternalUrl(html.jsonUrls, html.allUrls)>>

\* the first of the candidates that is one, Null when none is
RECURSIVE FirstCandidate(_)
FirstCandidate(candidates) ==
    IF candidates = <<>> THEN Null
    ELSE IF Head(candidates) # Null THEN Head(candidates)
    ELSE FirstCandidate(Tail(candidates))

\* the candidate of the earliest family that yields one, Null when none does
EarliestCandidate(html) == FirstCandidate(FamilyCandidates(html))

\* the families of a page that yield a valid candidate
Yielding(candidates) == {i \in 1..Len(candidates) : candidates[i] # Null}

\* two families yield different candidates and url is that of the earlier one,
\* which is not the first family
EarlierOfTwo(candidates, url) ==
    \E i, j \in Yielding(candidates) :
          i < j /\ i > 1 /\ candidates[i] # candidates[j] /\ url = candidates[i]

C27_ReturnedUrlIsValid ==
    (ex.pc = "returned" /\ ex.result # NoUrl) =>
        /\ ex.result.host # Null
        /\ ~IsListedDomain(ToLowerCase(ex.result.host), landingExcludedDomains)

\* the candidates themselves are valid when they are taken from the page
CandidateIsValid ==
    ex.pc = "follow" => isValidLandingPageUrl(ex.url)
-----------------------------------------------------------------------------
(* Claims about the keywords of Step 3, checked under Spec                 *)

\* the user's keywords, then the refined list when there is one and the raw
\* list otherwise, without duplicates and cut; the brand name when nothing is left
KeywordListOf(user, refined, raw, max, brand) ==
    LET list == Take(Dedup(user \o (IF refined # <<>> THEN refined ELSE raw)), max)
    IN  IF list = <<>> THEN <<brand>> ELSE list

\* the list for the options of the run
ListedFor(refined, raw) ==
    KeywordListOf(opt.options.keywords, refined, raw,
                  OrDefault(opt.options.max_keywords, MAX_KEYWORDS), opt.brandName)

\* C28: the keywords of Step 4 are the user's keywords, then the refined list
\* when the refinement returned a non-empty one and the raw list otherwise,
\* without duplicates and cut to max_keywords; a refinement that is not
\* available, is skipped for time or fails does not end the run, and the list
\* is never empty
C28_KeywordsOfStep4 ==
    [][/\ (run.pc = "step3" /\ run'.pc # "step3") =>
            /\ run'.pc \in {"ai", "step4"} /\ report' = NoReport
            /\ run'.pc = "step4" => run'.allKeywords = ListedFor(Null, run'.candidates)
       /\ (run.pc = "ai" /\ run'.pc # "ai") =>
            /\ run'.pc = "step4" /\ report' = NoReport
            /\ run'.allKeywords = ListedFor(run'.aiKeywords, run.candidates)
       /\ run'.pc = "step4" => run'.allKeywords # <<>>]_vars

\* Step 4 has been reached with the user's keyword before the first refined one,
\* the second refined one cut off and the raw ones not used
C28_Witness ==
    /\ run.pc = "step4" /\ run.aiKeywords = <<S_cream, S_lotion>>
    /\ opt.options.keywords # <<>>
    /\ run.allKeywords = opt.options.keywords \o <<S_cream>>
    /\ run.candidates = <<S_serum>>
-----------------------------------------------------------------------------
(* Claims about matches below the confidence cut, checked under Spec       *)

\* what the steps of the cascade after the content checks yield for a domain
\* checked in the run: the cascade taken up at 6d with the arguments of the check
LaterSteps(domain) ==
    CheckRun([domain |-> domain, brandInfo |-> run.brandInfo,
              opts |-> [use_headless |-> domainCheckHeadless, scrapingbee_key |-> opt.options.scrapingbee_key,
                        domainAds |-> DomainAds(run.domainToAds, ToLowerCase(domain)),
                        domainFullUrls |-> UrlsOf(run.domainFullUrls, ToLowerCase(domain))],
              site |-> WorldSite(domain)],
             Goto(CheckStart(domain), "6d")).result

\* a later step of the cascade yields a match at or above the cut for the domain
StrongerLater(domain) ==
    LaterSteps(domain).is_match /\ LaterSteps(domain).confidence >= MIN_CONFIDENCE

\* C30: a verified domain whose check ended with a match below 0.70, and for
\* which a later step of the cascade yields a match of at least 0.70, is in
\* the report
C30_NoStrongerMatchHidden ==
    (report.returned /\ report.success) =>
        \A k \in 1..Len(run.checks) :
            (run.checks[k].is_match /\ run.checks[k].confidence < MIN_CONFIDENCE
             /\ StrongerLater(run.checks[k].domain))
            => Has(report.domains.all, run.checks[k].domain)
-----------------------------------------------------------------------------
(* Claims about generateKeywords, checked under SpecKeywords                *)

\* a compound keyword is two words with a space between them
IsCompound(keyword) == Has(keyword, " ")

\* how often a word stands in the texts of the ads, whatever its case
TimesInTexts(word, ads) ==
    LET InText(text) ==
            Len(SelectSeq(SplitWords(text, <<>>), LAMBDA w : ToLowerCase(w) = word))
        InTexts(texts) ==
            LET F[i \in 0..Len(texts)] == IF i = 0 THEN 0 ELSE F[i - 1] + InText(texts[i])
            IN  F[Len(texts)]
        G[i \in 0..Len(ads)] ==
            IF i = 0 THEN 0
            ELSE G[i - 1] + ads[i].times * InTexts(ads[i].ad.bodies \o ads[i].ad.titles
                                                       \o ads[i].ad.descriptions)
    IN  G[Len(ads)]

\* the compound keyword is made of two words of the list
MadeOfListed(keyword, list) ==
    \E a, b \in 1..Len(list) :
        /\ ~IsCompound(list[a]) /\ ~IsCompound(list[b])
        /\ keyword = capitalize(list[a]) \o <<" ">> \o capitalize(list[b])

\* at most maxKeywords keywords, none twice, every single-token keyword before
\* every compound keyword, and each single-token keyword 3 times at least and
\* 0.5% of the number of ads times at least in the texts
KeywordListIsOrdered ==
    kg.pc = "done" =>
        /\ Len(kg.keywords) <= kg.maxKeywords
        /\ \A i, j \in 1..Len(kg.keywords) :
              /\ (i # j) => kg.keywords[i] # kg.keywords[j]
              /\ (~IsCompound(kg.keywords[i]) /\ IsCompound(kg.keywords[j])) => i < j
        /\ \A i \in 1..Len(kg.keywords) :
              ~IsCompound(kg.keywords[i]) =>
                  /\ TimesInTexts(kg.keywords[i], kg.ads) >= 3
                  /\ TimesInTexts(kg.keywords[i], kg.ads) * 1000 >= 5 * AdCount(kg.ads)

\* C29: generateKeywords returns at most maxKeywords keywords, none twice, every
\* single-token keyword before every compound keyword; each single-token
\* keyword occurs in the texts at least 3 times and at least 0.5% of the number
\* of ads times, and no compound keyword is in the list whose two words are
\* both in it
C29_KeywordList ==
    /\ KeywordListIsOrdered
    /\ kg.pc = "done" =>
          \A i \in 1..Len(kg.keywords) :
              IsCompound(kg.keywords[i]) => ~MadeOfListed(kg.keywords[i], kg.keywords)

\* the words of every compound that does not begin with a sharp s are not both
\* in the list
CompoundsOfPlainWords ==
    kg.pc = "done" =>
        \A i \in 1..Len(kg.keywords) :
            (IsCompound(kg.keywords[i]) /\ kg.keywords[i][1] # "S")
            => ~MadeOfListed(kg.keywords[i], kg.keywords)

-----------------------------------------------------------------------------
(* Claims about scan_stats, checked under Spec                             *)

\* the sum of the counts of detection_methods over all match kinds
SumOfMethods(methods) ==
    LET S[T \in SUBSET MatchTypes] ==
            IF T = {} THEN 0
            ELSE LET t == CHOOSE x \in T : TRUE IN methods[t] + S[T \ {t}]
    IN  S[MatchTypes]

\* C31: in every successful report the counts of scan_stats.detection_methods
\* add up to scan_stats.matches_found.
C31_MethodCountsAgree ==
    report.success =>
        SumOfMethods(report.scan_stats.detection_methods) = report.scan_stats.matches_found

\* the counts are those of every match of Step 6, filtered or not
MethodCountsAreOfStep6 ==
    report.success =>
        SumOfMethods(report.scan_stats.detection_methods) = Len(run.matchedDomains)

-----------------------------------------------------------------------------
(* Claims about the third-party pages of the report, checked under Spec    *)

\* the ads seen in the run: the brand ads and the keyword ads
SeenAds == run.brandAds \o run.allAds

\* the ad names the domain in one of its captions
Referenced(ad, domain) ==
    \E c \in 1..Len(ad.captions) :
        ToLowerCase(extractDomainFromCaption(ad.captions[c])) = ToLowerCase(domain)

\* the page id is that of an ad seen in the run that names a matched domain
PageOfMatchedAd(pageId) ==
    \E a \in 1..Len(SeenAds), d \in 1..Len(report.domains.all) :
        /\ SeenAds[a].page_id = pageId
        /\ Referenced(SeenAds[a], report.domains.all[d])

\* C32: every page_id of pages.third_party is the page id of an ad seen in the
\* run that referenced a matched domain, and the placeholder 'unknown' of the
\* ads without a page id is no third-party page.
C32_ThirdPartyPagesAreOfAds ==
    report.success =>
        \A p \in 1..Len(report.pages.third_party) :
            /\ report.pages.third_party[p].page_id # "unknown"
            /\ PageOfMatchedAd(report.pages.third_party[p].page_id)

\* every third-party page but the placeholder is the page of such an ad
NamedPagesAreOfAds ==
    report.success =>
        \A p \in 1..Len(report.pages.third_party) :
            report.pages.third_party[p].page_id # "unknown"
            => PageOfMatchedAd(report.pages.third_party[p].page_id)

\* a report with third-party pages that have a page id
NamedPagesWitness ==
    /\ report.success
    /\ \E p \in 1..Len(report.pages.third_party) :
          report.pages.third_party[p].page_id \notin {"unknown", "p1"}

-----------------------------------------------------------------------------
(* Claims about the domain categories of the report, checked under Spec    *)

\* the domains of a list as a set
SetOf(list) == {list[k] : k \in 1..Len(list)}

\* no domain stands twice in the list
NoDuplicates(list) == \A i, j \in 1..Len(list) : (i # j) => list[i] # list[j]

\* domains.all is the union of the three categories, every domain once
AllIsUnion ==
    report.success =>
        /\ SetOf(report.domains.all) =
               SetOf(report.domains.presell) \cup SetOf(report.domains.redirect)
                  \cup SetOf(report.domains.final_shop)
        /\ NoDuplicates(report.domains.all)

\* no domain is in two of the three categories
CategoriesDisjoint ==
    report.success =>
        /\ SetOf(report.domains.presell) \cap SetOf(report.domains.redirect) = {}
        /\ SetOf(report.domains.presell) \cap SetOf(report.domains.final_shop) = {}
        /\ SetOf(report.domains.redirect) \cap SetOf(report.domains.final_shop) = {}

\* C33: in every successful report domains.presell, domains.redirect and
\* domains.final_shop are pairwise disjoint, and domains.all is their union
\* without duplicates.
C33_DomainCategories == CategoriesDisjoint /\ AllIsUnion

\* a report with domains in all three categories
C33_Witness ==
    /\ report.success
    /\ report.domains.presell # <<>> /\ report.domains.redirect # <<>>
    /\ Len(report.domains.final_shop) >= 2

-----------------------------------------------------------------------------
(* Claims about the rendering service, checked under SpecCheck             *)

\* the calls checkDomainForBrand has made to the rendering service
RenderCalls == SelectSeq(cst.net, LAMBDA call : call = "render")

\* C39: when headless rendering is not enabled for the domain checks,
\* checkDomainForBrand makes no call to the rendering service, even with a
\* rendering key in the options.
C39_NoRenderingUnlessEnabled ==
    ~cin.opts.use_headless => RenderCalls = <<>>

\* without a rendering key in the options no call to the rendering service is
\* made and with one at most one, whatever use_headless says
RenderingFollowsKey ==
    /\ ~cin.opts.scrapingbee_key => RenderCalls = <<>>
    /\ Len(RenderCalls) <= 1

-----------------------------------------------------------------------------
(* Claims about the job queue of the worker, checked under SpecWorker      *)

\* the jobs of the worker with the status
JobsIn(w, status) == {j \in 1..Len(w.jobs) : w.jobs[j].status = status}

AtMostOneRunning == Cardinality(JobsIn(wk, "running")) <= 1

\* the job starts running in this step
Starts(j) ==
    /\ j \in JobsIn(wk', "running")
    /\ j \notin JobsIn(wk, "running")

\* when a job starts running, no job enqueued before it is still queued
StartsInOrder ==
    \A j \in 1..Len(wk'.jobs) :
        Starts(j) => \A k \in 1..(j - 1) : k \notin JobsIn(wk', "queued")

\* C34: under any interleaving of requests to /api/discover and /api/batch
\* and of job completions at most one job is running at any time, and the
\* jobs start running in the order in which they were enqueued.
C34_OneRunningInOrder == []AtMostOneRunning /\ [][StartsInOrder]_vars

\* a first job has ended, the second is running and a third is queued
C34_Witness ==
    /\ Len(wk.jobs) = 3
    /\ wk.jobs[1].status \in {"completed", "error"}
    /\ wk.jobs[2].status = "running"
    /\ wk.jobs[3].status = "queued"

\* every id of the queue is the id of a job of the jobs map that is queued
QueueJobsExist ==
    \A k \in 1..Len(wk.jobQueue) :
        /\ wk.jobQueue[k] \in 1..Len(wk.jobs)
        /\ wk.jobs[wk.jobQueue[k]].present

\* no step deletes a job that is queued or running
NoLiveJobDeleted ==
    \A j \in 1..Len(wk.jobs) :
        (wk.jobs[j].present /\ wk.jobs[j].status \in {"queued", "running"})
        => wk'.jobs[j].present

\* C36: cleanupOldJobs never deletes a job that is queued or running, and
\* every job id in jobQueue is the id of a job in the jobs map.
C36_QueuedJobsAreKept == []QueueJobsExist /\ [][NoLiveJobDeleted]_vars

\* cleanupOldJobs has deleted a job while another job is running and a third
\* one waits in the queue
C36_Witness ==
    /\ \E j \in 1..Len(wk.jobs) : ~wk.jobs[j].present
    /\ JobsIn(wk, "running") # {}
    /\ wk.jobQueue # <<>>

\* C37: at any time at most one job per brand, the names compared without
\* their case, is queued or running.
C37_OneLiveJobPerBrand ==
    \A i, j \in 1..Len(wk.jobs) :
        (i # j /\ wk.jobs[i].present /\ wk.jobs[j].present
             /\ wk.jobs[i].status \in {"queued", "running"})
        => ~IsLiveFor(wk.jobs[j], wk.jobs[i].brand)

\* /api/discover creates no job for a brand that has a queued or running job,
\* and answers with the id of a job of the brand
DiscoverKeepsOneJob ==
    [][(ApiDiscover \/ LookupDone) =>
          /\ \A j \in (Len(wk.jobs) + 1)..Len(wk'.jobs) :
                 LiveJobFor(wk, wk'.jobs[j].brand) = 0
          /\ (wk'.answer.endpoint = "discover" /\ wk'.answer.status = "processing")
                 => /\ wk'.answer.job_id \in 1..Len(wk'.jobs)
                    /\ ToLowerCase(wk'.jobs[wk'.answer.job_id].brand)
                          = ToLowerCase(wk'.answer.req.brand)]_vars

-----------------------------------------------------------------------------
(* Claims about the end of the jobs, checked under SpecWorkerLive          *)

Queued(j) == j \in JobsIn(wk, "queued")
Ended(j)  == j \in JobsIn(wk, "completed") \cup JobsIn(wk, "error")

\* a status changes from queued to running and from running to completed or
\* error only
StatusMovesForward ==
    \A j \in 1..Len(wk.jobs) :
        \/ wk'.jobs[j].status = wk.jobs[j].status
        \/ wk.jobs[j].status = "queued" /\ wk'.jobs[j].status = "running"
        \/ wk.jobs[j].status = "running" /\ wk'.jobs[j].status \in {"completed", "error"}

\* C35: every enqueued job is completed or in error in the end, provided
\* every call of discoverBrand returns or throws, and the status of a job
\* moves from queued to running to completed or error only.
C35_EveryJobEnds ==
    /\ [][StatusMovesForward]_vars
    /\ \A j \in 1..MaxJobs : Queued(j) ~> Ended(j)

\* the status of a job moves forward only
StatusOrder == [][StatusMovesForward]_vars

\* a job that is queued while the worker is processing, and a job that is
\* running, ends
BusyWorkerDrains ==
    \A j \in 1..MaxJobs :
        /\ (Queued(j) /\ wk.isProcessing) ~> Ended(j)
        /\ (j \in JobsIn(wk, "running")) ~> Ended(j)

-----------------------------------------------------------------------------
(* Claims about the cache, checked under SpecCache                         *)

\* C38: a report answered with status 'cached' for a request was produced by
\* a successful run for the brand and the country of the request.
C38_CachedIsOfRequest ==
    wk.answer.status = "cached" =>
        /\ wk.answer.data.success
        /\ ToLowerCase(wk.answer.data.brand) = ToLowerCase(wk.answer.req.brand)
        /\ wk.answer.data.country = EffectiveCountry(wk.answer.req.country)

\* no report of a failed run is in the cache, and a cached answer is a report
\* of a successful run for the brand of the request
CachedIsOfBrand ==
    /\ \A k \in 1..Len(wk.cache) : wk.cache[k].data.success
    /\ wk.answer.status = "cached" =>
          /\ wk.answer.data.success
          /\ ToLowerCase(wk.answer.data.brand) = ToLowerCase(wk.answer.req.brand)
====
